---- MODULE Spec2Model ----
(***************************************************************************)
(* Offline-first synchronisation of the Shelf bookmark manager.            *)
(*                                                                         *)
(* Several devices (browser installations) share the gists of one GitHub   *)
(* account.  Each device holds a local snapshot (bookmark-context.tsx), a  *)
(* GitHub client with a bearer token (github.ts) and a gist storage        *)
(* service (gist-storage.ts).  A call of performSync is an asynchronous    *)
(* function: it is modelled as a call record that moves through the await  *)
(* points of performSync -> syncWithGist -> uploadToGist.                  *)
(*                                                                         *)
(* Time is a global clock `now`; every `new Date()` of the code reads it.  *)
(* The clock is observed when the user edits: an edit happens at the time  *)
(* of the previous event or TickMs later.                                  *)
(* A snapshot is abstracted to the set of its items and its lastUpdated;    *)
(* the edits of a device add or remove the item that device works on.      *)
(***************************************************************************)
EXTENDS Integers, Sequences, FiniteSets, TLC

\* ---------------------------------------------------------------- bounds
Devices  == {"A", "B"}
TickMs    == 2500  \* milliseconds the clock advances between two observed times
MaxSyncs  == 2     \* performSync calls started in one run, all devices together
MaxEdits  == 2     \* local edits made in one run, all devices together
MaxFaults == 1     \* failing requests, token expiries and corrupted documents in one run
MaxResolves == 1   \* conflict resolutions started in one run
MaxRequests == 3   \* requests one client starts in one run of ClientSpec
MaxLogins == 1     \* credentials set in one run of ClientSpec
ResetMs == 3000    \* how far ahead of the response the reported quota reset lies
ExpiresMs == 2000  \* lifetime of a credential that carries an expiry

\* slots for the performSync calls that are open at once
Calls == 1..MaxSyncs

\* ------------------------------------------------------------- data types
NoData == [items |-> {}, lastUpdated |-> -1]
NoMeta == [deviceId |-> "none", syncCount |-> 0, lastSync |-> -1]
NoSeen == [id |-> 0, data |-> NoData, meta |-> NoMeta]

\* Error classes of the GitHub client: GitHubAuthError, GitHubRateLimitError, and
\* plain GitHubAPIError (a server message, or status 0 for a network failure
\* after the retries).
Errors == {"auth", "rate", "api"}

NoResult == [success |-> FALSE, action |-> "none", error |-> "none",
             gistId |-> 0, data |-> NoData, conflict |-> "none"]

NoConflict == [type |-> "none", localData |-> NoData, remoteData |-> NoData]

\* An open performSync call.  pc is its await point; data is the state.data and
\* capStatus the state.sync.status its closure captured; seen is the remote package
\* syncWithGist classified; target the gist uploadToGist found (0 = none).
\* lost, werr and wrote record what happened to the call's requests: the last
\* error a lookup swallowed, the error of the write request, and whether a write
\* request reached the store.  unparsed is the gist syncWithGist found but
\* parseGistData rejected (0 = none).  resolution is "none" for a performSync and
\* the user's choice for a call of the context's resolveConflict.
FreeCall == [pc |-> "free", data |-> NoData, capStatus |-> "idle", seen |-> NoSeen,
             target |-> 0, res |-> NoResult, lost |-> "none", werr |-> "none",
             wrote |-> FALSE, unparsed |-> 0, resolution |-> "none"]

Resolutions == {"local", "remote", "merge"}

VARIABLES
  now,          \* the clock read by new Date() / Date.now()
  gists,        \* the account's documents, gists[id] = [data, meta, ok]; ok: the
                \* files' contents parse and hold the required fields
  local,        \* state.data of each device's BookmarkProvider
  token,        \* githubClient.isAuthenticated() of each device
  connected,    \* isConnectedToGitHub of each device's AuthProvider
  gistId,       \* GistStorageService.lastKnownGistId (0 = null)
  status,       \* state.sync.status
  conflictData, \* state.sync.conflictData (NoConflict when undefined)
  debounce,     \* syncTimeoutRef: the pending 2 s timer and the state.data of
                \* the performSync closure it will call (NoData: no timer)
  startup,      \* the 1 s startup timer is pending
  ivData,       \* state.data of the performSync closure the interval effect holds
  started,      \* performSync calls started so far
  edits,        \* local edits made so far
  resolves,     \* conflict resolutions started so far
  faults,       \* requests that failed and tokens that expired so far
  call,         \* the open performSync calls of each device
  \* one GitHubClient in detail (ClientSpec)
  cnow,           \* Date.now() of the client
  accessToken,    \* this.accessToken is set
  tokenExpiresAt, \* this.tokenExpiresAt (0 = null)
  storedToken,    \* localStorage holds 'shelf-github-token'
  rateLimit,      \* this.rateLimit (NoRateLimit = null)
  req,            \* the requests of the client, by slot
  requests,       \* requests started so far
  logins,         \* credentials set so far
  \* the functions of the storage service on snapshots with their items (DataSpec)
  dLocal,         \* localData, the snapshot handed to the service
  dRemote,        \* remoteData, the snapshot of the other side
  doc,            \* the files of the bookmark gist (NoDoc: no gist)
  downloaded,     \* what downloadFromGist returned (NoResult: not called)
  merged,         \* what mergeData returned (NoSnapshot: not called)
  sums,           \* generateChecksum of dLocal and of dRemote (<<>>: not called)
  \* one BookmarkProvider with its timers and its local storage (ProviderSpec)
  tnow,           \* the clock of the browser
  tstatus,        \* state.sync.status
  pdata,          \* state.data
  loading,        \* state.loading
  stored,         \* localStorage 'shelf-data' (NoData: no entry)
  timers,         \* the due times of the pending timeouts of triggerAutoSync
  timeoutRef,     \* syncTimeoutRef.current, by its due time (0 = null)
  events,         \* the edits made and the syncs the timeouts started, in order
  \* the gists of one account as a fresh client lists them (ListSpec)
  account,        \* the answer of GET /gists, in the order of the answer
  located,        \* the id findBookmarkGist returned (0 = null, -1: not called)
  \* the state of bookmarkReducer with the items of its snapshot (ReducerSpec)
  rnow,           \* the clock read by new Date() in the reducer
  rdata,          \* state.data: collections, bookmarks, lastUpdated
  rsync,          \* state.sync: status, error, conflictData
  rsettings,      \* state.settings
  rlast,          \* the action dispatched last: its type, and the payload of LOAD_DATA
  \* the server's module-level githubClient behind the API routes (RouteSpec)
  serverToken,    \* this.accessToken of the server's githubClient, by its owner
  authenticated,  \* the users whose OAuth login the callback route completed
  remoteDoc,      \* the bookmark gist of each account, by the author of its content
  response        \* the last answer of POST /api/gist/sync

\* the state of the sync model and the state of the client model
svars == <<now, gists, local, token, connected, gistId, status, conflictData,
           debounce, startup, ivData, started, edits, resolves, faults, call>>

cvars == <<cnow, accessToken, tokenExpiresAt, storedToken, rateLimit, req,
           requests, logins>>

dvars == <<dLocal, dRemote, doc, downloaded, merged, sums>>

pvars == <<tnow, tstatus, pdata, loading, stored, timers, timeoutRef, events>>

lvars == <<account, located>>

rvars == <<rnow, rdata, rsync, rsettings, rlast>>

avars == <<serverToken, authenticated, remoteDoc, response>>

vars == <<now, gists, local, token, connected, gistId, status, conflictData,
          debounce, startup, ivData, started, edits, resolves, faults, call,
          cnow, accessToken, tokenExpiresAt, storedToken, rateLimit, req,
          requests, logins, dLocal, dRemote, doc, downloaded, merged, sums,
          tnow, tstatus, pdata, loading, stored, timers, timeoutRef, events,
          account, located,
          rnow, rdata, rsync, rsettings, rlast,
          serverToken, authenticated, remoteDoc, response>>

\* ------------------------------------------------- gist-storage.ts, pure part
Abs(n) == IF n < 0 THEN -n ELSE n

DATA_CONFLICT_WINDOW == 5000

\* createMetadata(data, syncCount): stamps the time and the device, counts the sync.
\* (version is a constant and checksum a function of data that no decision reads.)
CreateMetadata(dev, syncCount) ==
  [deviceId |-> dev, syncCount |-> syncCount + 1, lastSync |-> now]

\* detectConflict without the last-writer test: the newer side simply wins
DetectConflictByTimeOnly(localData, pkg, dev) ==
  LET localUpdated  == localData.lastUpdated
      remoteUpdated == pkg.data.lastUpdated
  IN  IF remoteUpdated > localUpdated THEN "none"
      ELSE IF localUpdated > remoteUpdated THEN "none"
      ELSE "merge"

\* detectConflict without its second rule: a local snapshot that is newer than
\* this device's own last upload is reported as a conflict
DetectConflictNoOwnUpload(localData, pkg, dev) ==
  LET localUpdated  == localData.lastUpdated
      remoteUpdated == pkg.data.lastUpdated
  IN  IF remoteUpdated > localUpdated /\ pkg.meta.deviceId # dev THEN "none"
      ELSE IF Abs(localUpdated - remoteUpdated) < DATA_CONFLICT_WINDOW THEN "merge"
      ELSE "data"

\* detectConflict with a window that takes in a distance of exactly 5000 ms
DetectConflictWindowInclusive(localData, pkg, dev) ==
  LET localUpdated  == localData.lastUpdated
      remoteUpdated == pkg.data.lastUpdated
  IN  IF remoteUpdated > localUpdated /\ pkg.meta.deviceId # dev THEN "none"
      ELSE IF localUpdated > remoteUpdated /\ pkg.meta.deviceId = dev THEN "none"
      ELSE IF Abs(localUpdated - remoteUpdated) <= DATA_CONFLICT_WINDOW THEN "merge"
      ELSE "data"

\* detectConflict(localData, remotePackage): "none" for null, else the type.
DetectConflict(localData, pkg, dev) ==
  LET localUpdated  == localData.lastUpdated
      remoteUpdated == pkg.data.lastUpdated
  IN  IF remoteUpdated > localUpdated /\ pkg.meta.deviceId # dev THEN "none"
      ELSE IF localUpdated > remoteUpdated /\ pkg.meta.deviceId = dev THEN "none"
      ELSE IF Abs(localUpdated - remoteUpdated) < DATA_CONFLICT_WINDOW THEN "merge"
      ELSE "data"

\* The error text the catch blocks of uploadToGist / syncWithGist build.
ErrorMessage(e) ==
  CASE e = "auth" -> "Authentication failed"
    [] e = "rate" -> "Rate limit exceeded"
    [] OTHER      -> "server message"

\* catch block of uploadToGist
UploadCatch(e) ==
  [NoResult EXCEPT !.success = FALSE, !.action = "uploaded", !.error = ErrorMessage(e)]

\* uploadToGist, githubClient.isAuthenticated() is false
UploadNotAuthenticated ==
  [NoResult EXCEPT !.success = FALSE, !.action = "uploaded", !.error = "Not authenticated"]

\* uploadToGist, the write went through
UploadOk(data, id) ==
  [NoResult EXCEPT !.success = TRUE, !.action = "uploaded", !.data = data, !.gistId = id]

\* syncWithGist, githubClient.isAuthenticated() is false
SyncNotAuthenticated ==
  [NoResult EXCEPT !.success = FALSE, !.action = "no_change", !.error = "Not authenticated"]

\* performSync, isConnectedToGitHub is false
NotConnected ==
  [NoResult EXCEPT !.success = FALSE, !.action = "no_change", !.error = "Not connected"]

\* syncWithGist after findBookmarkGist returned: what it returns without a
\* further request, or "upload" when it goes on to uploadToGist(localData).
\* pkg.id = 0 stands for no gist found.
SyncDecision(localData, pkg, dev) ==
  IF pkg.id = 0 THEN "upload"
  ELSE LET conflict == DetectConflict(localData, pkg, dev)
           localUpdated  == localData.lastUpdated
           remoteUpdated == pkg.data.lastUpdated
       IN  IF conflict # "none" THEN "conflict"
           ELSE IF localUpdated > remoteUpdated THEN "upload"
           ELSE IF remoteUpdated > localUpdated THEN "downloaded"
           ELSE "no_change"

\* syncWithGist handing back the local snapshot on the download branch
SyncReturnLocalData(localData, pkg, dev) ==
  LET d == SyncDecision(localData, pkg, dev)
  IN  CASE d = "conflict" ->
             [NoResult EXCEPT !.success = FALSE, !.action = "conflict",
                              !.conflict = DetectConflict(localData, pkg, dev),
                              !.gistId = pkg.id]
        [] d = "downloaded" ->
             [NoResult EXCEPT !.success = TRUE, !.action = "downloaded",
                              !.data = localData, !.gistId = pkg.id]
        [] d = "no_change" ->
             [NoResult EXCEPT !.success = TRUE, !.action = "no_change",
                              !.data = localData, !.gistId = pkg.id]
        [] OTHER -> NoResult

\* the value syncWithGist returns when it returns without uploading
SyncReturn(localData, pkg, dev) ==
  LET d == SyncDecision(localData, pkg, dev)
  IN  CASE d = "conflict" ->
             [NoResult EXCEPT !.success = FALSE, !.action = "conflict",
                              !.conflict = DetectConflict(localData, pkg, dev),
                              !.gistId = pkg.id]
        [] d = "downloaded" ->
             [NoResult EXCEPT !.success = TRUE, !.action = "downloaded",
                              !.data = pkg.data, !.gistId = pkg.id]
        [] d = "no_change" ->
             [NoResult EXCEPT !.success = TRUE, !.action = "no_change",
                              !.data = localData, !.gistId = pkg.id]
        [] OTHER -> NoResult

\* mergeData(localData, remoteData): the union by id, stamped with the time of
\* the merge (an item is present or absent; its content is not modelled here)
MergeData(localData, remoteData) ==
  [items |-> localData.items \cup remoteData.items, lastUpdated |-> now]

\* resolveConflict handing back the local side for 'remote'
ResolveRemoteKeepsLocal(conflict) ==
  [NoResult EXCEPT !.success = TRUE, !.action = "downloaded", !.data = conflict.localData]

\* resolveConflict(conflict, 'remote'): the remote side, as a download
ResolveRemote(conflict) ==
  [NoResult EXCEPT !.success = TRUE, !.action = "downloaded", !.data = conflict.remoteData]

\* resolveConflict that uploads the local side for 'merge' as well
DataToUploadLocalOnly(conflict, resolution) == conflict.localData

\* resolveConflict(conflict, 'local' | 'merge'): dataToUpload
DataToUpload(conflict, resolution) ==
  IF resolution = "local" THEN conflict.localData
  ELSE MergeData(conflict.localData, conflict.remoteData)

\* ------------------------------------------------------------ github.ts
\* Outcome of one request of makeRequest: "ok" or the error it throws.  Without a
\* token makeRequest throws GitHubAuthError before any network call.  nf is the
\* number of requests that have failed so far, the step under way included.
Outcomes(tok, nf) ==
  IF tok THEN {"ok"} \cup (IF nf < MaxFaults THEN Errors ELSE {}) ELSE {"auth"}

\* 1 when outcome o of a request made with token tok is a failed request
Failed(tok, o) == IF tok /\ o \in Errors THEN 1 ELSE 0

\* makeRequestWithRetry: a 401 clears the stored token.
TokenAfter(tok, o) == tok /\ o # "auth"

\* GitHubClient.findBookmarkGist: lists the gists and returns a matching one, or
\* null; its catch turns every error into null.  found = 0 is null.
ClientFindBookmarkGist(tok, nf) ==
  { [found |-> g, tok |-> tok, lost |-> "none", nf |-> nf] :
      g \in (IF tok THEN (IF gists = <<>> THEN {0} ELSE 1..Len(gists)) ELSE {}) }
  \cup
  { [found |-> 0, tok |-> TokenAfter(tok, o), lost |-> o, nf |-> nf + Failed(tok, o)] :
      o \in Outcomes(tok, nf) \ {"ok"} }

\* GistStorageService.findBookmarkGist: the cached id first (an error there is
\* swallowed), then the search; a gist found by the search is cached.
FindBookmarkGist(dev) ==
  LET byId == IF gistId[dev] # 0 THEN Outcomes(token[dev], faults) ELSE {"skip"}
  IN  UNION {
        IF o = "ok"
        THEN { [found |-> gistId[dev], tok |-> token[dev], cache |-> gistId[dev],
                lost |-> "none", nf |-> faults] }
        ELSE LET tok1 == IF o = "skip" THEN token[dev] ELSE TokenAfter(token[dev], o)
                 nf1  == IF o = "skip" THEN faults ELSE faults + Failed(token[dev], o)
             IN  { [found |-> r.found, tok |-> r.tok,
                    cache |-> IF r.found # 0 THEN r.found ELSE gistId[dev],
                    lost  |-> IF r.lost # "none" THEN r.lost
                              ELSE IF o = "skip" THEN "none" ELSE o,
                    nf    |-> r.nf] :
                   r \in ClientFindBookmarkGist(tok1, nf1) }
        : o \in byId }

\* parseGistData that skips the parse and the validation of the content
ParseGistDataUnchecked(id) ==
  IF id = 0 THEN NoSeen ELSE [id |-> id, data |-> gists[id].data, meta |-> gists[id].meta]

\* parseGistData(gist): the package, or null (NoSeen) when the content does not
\* parse or lacks collections, bookmarks or lastUpdated.  id = 0 is no gist.
ParseGistData(id) ==
  IF id = 0 \/ ~gists[id].ok THEN NoSeen
  ELSE [id |-> id, data |-> gists[id].data, meta |-> gists[id].meta]

\* the id of a found gist whose content is unreadable, else 0
Unparsed(id) == IF id # 0 /\ ~gists[id].ok THEN id ELSE 0

\* ------------------------------------------- github.ts, one client in detail
DEFAULT_RETRY_ATTEMPTS == 3
DEFAULT_RETRY_DELAY == 1000
RATE_LIMIT_BUFFER == 10
RATE_LIMIT_WAIT_BUFFER == 1000

\* request slots: the requests of the client are followed one at a time
Reqs == {1}

NoRateLimit == [remaining |-> -1, reset |-> 0]

\* What fetch can bring: a 2xx response with a JSON body, a 2xx response whose
\* body is empty or not JSON (the 204 of a delete), a 401, a 403 whose message
\* contains 'rate limit', another 403, another 4xx, a 5xx, or a rejection
\* (network failure).
Responses == {"ok", "okNoBody", "401", "403rate", "403", "404", "500", "network"}

\* X-RateLimit-Remaining of a response (-1: the response has no quota headers)
Remainings == {-1, RATE_LIMIT_BUFFER, RATE_LIMIT_BUFFER + 1}

\* A request.  attempt is the parameter of makeRequestWithRetry, sent the fetch
\* calls issued, last the last response, out the result ("ok" or the error
\* class thrown) with its status, message and resetTime; retried collects the
\* responses that were followed by another attempt and delays the backoff
\* delays; unchecked tells that a fetch was issued while the recorded quota was
\* at or under the buffer with its reset in the future.
IdleReq == [pc |-> "idle", attempt |-> 0, sent |-> 0, wake |-> 0, last |-> "none",
            out |-> "none", status |-> 0, msg |-> "none", resetTime |-> 0,
            retried |-> {}, delays |-> <<>>, unchecked |-> FALSE]

Max(a, b) == IF a > b THEN a ELSE b

Pow2(n) == IF n <= 0 THEN 1 ELSE IF n = 1 THEN 2 ELSE 4

\* DEFAULT_RETRY_DELAY * Math.pow(2, attempt - 1)
RetryDelay(attempt) == DEFAULT_RETRY_DELAY * Pow2(attempt - 1)

\* isAuthenticated() at time t, before its side effect
IsAuthenticated(t) ==
  accessToken /\ ~(tokenExpiresAt # 0 /\ t >= tokenExpiresAt)

\* the condition under which checkRateLimit delays, for a recorded quota
QuotaLow(rl, t) ==
  rl # NoRateLimit /\ rl.remaining <= RATE_LIMIT_BUFFER /\ t < rl.reset

\* updateRateLimitFromHeaders: a response with the headers replaces the record
UpdateRateLimit(resp, remaining, t) ==
  IF resp = "network" \/ remaining = -1 THEN rateLimit
  ELSE [remaining |-> remaining, reset |-> t + ResetMs]

\* makeRequestWithRetry that treats a 401 like a server error
DispositionRetries401(resp, attempt) ==
  IF attempt < DEFAULT_RETRY_ATTEMPTS
  THEN [kind |-> "retry", out |-> "none", status |-> 0, msg |-> "none", clear |-> FALSE]
  ELSE [kind |-> "throw", out |-> "auth", status |-> 401, msg |-> "auth", clear |-> TRUE]

\* makeRequestWithRetry after fetch settled with resp on attempt `attempt`: it
\* returns, throws (out is the error class) or retries; clear: the token is
\* cleared.  The 403 branch reads the body; the body of a 403 that is no rate
\* limit has then been consumed, so the second response.json() rejects and the
\* message falls back to the status text.  A 2xx body that does not parse
\* throws inside the try block and is handled as a network error.
Disposition(resp, attempt) ==
  CASE resp = "ok" ->
         [kind |-> "return", out |-> "ok", status |-> 200, msg |-> "none", clear |-> FALSE]
    [] resp = "401" ->
         [kind |-> "throw", out |-> "auth", status |-> 401, msg |-> "auth", clear |-> TRUE]
    [] resp = "403rate" ->
         [kind |-> "throw", out |-> "rate", status |-> 403, msg |-> "rate", clear |-> FALSE]
    [] resp = "403" ->
         [kind |-> "throw", out |-> "api", status |-> 403, msg |-> "statusText", clear |-> FALSE]
    [] resp = "404" ->
         [kind |-> "throw", out |-> "api", status |-> 404, msg |-> "server", clear |-> FALSE]
    [] resp = "500" ->
         IF attempt < DEFAULT_RETRY_ATTEMPTS
         THEN [kind |-> "retry", out |-> "none", status |-> 0, msg |-> "none", clear |-> FALSE]
         ELSE [kind |-> "throw", out |-> "api", status |-> 500, msg |-> "server", clear |-> FALSE]
    [] OTHER ->
         IF attempt < DEFAULT_RETRY_ATTEMPTS
         THEN [kind |-> "retry", out |-> "none", status |-> 0, msg |-> "none", clear |-> FALSE]
         ELSE [kind |-> "throw", out |-> "api", status |-> 0, msg |-> "network", clear |-> FALSE]

\* ------------------------------------- snapshots with their items (types.ts)
\* A BookmarkData is [collections, bookmarks, lastUpdated]; a Collection is
\* [id, name] and a Bookmark [id, collectionId, title, pinned, updatedAt].  The
\* other properties of an item (url, tags, order, ...) are carried like title.
\* Times are milliseconds; the ISO text of a time is written where the code
\* reads its characters (generateChecksum).
MaxItems == 2      \* items of one kind in an input snapshot
DataNow == 4000    \* the clock when the functions are applied
StepMs == 1000     \* milliseconds between two observed times of ProviderSpec
MaxTime == 6000    \* the clock of ProviderSpec stops here
MaxBurst == 3      \* edits made in one run of ProviderSpec

\* the value of a property that is absent or undefined
NoValue == "undefined"

CollectionPool ==
  { [id |-> "c1", name |-> n] : n \in {"Work", "2023", "2024"} }
  \cup { [id |-> "c2", name |-> "Home"] }

BookmarkPool ==
  { [id |-> "b1", collectionId |-> "c1", title |-> t, pinned |-> NoValue,
     updatedAt |-> u] : t \in {"t1", "t2"}, u \in {1000, 2000} }
  \cup { [id |-> "b2", collectionId |-> "c1", title |-> "t1", pinned |-> "true",
          updatedAt |-> 1000] }

RECURSIVE SeqsUpTo(_, _)
SeqsUpTo(P, n) ==
  IF n = 0 THEN { <<>> }
  ELSE LET S == SeqsUpTo(P, n - 1)
       IN  S \cup { Append(s, x) : s \in S, x \in P }

\* generateId gives every item of a snapshot its own id
DistinctIds(s) == \A i, j \in 1..Len(s) : s[i].id = s[j].id => i = j

Ids(s) == { s[i].id : i \in 1..Len(s) }

\* every bookmark's collectionId names a collection of the snapshot
References(data) ==
  \A i \in 1..Len(data.bookmarks) : data.bookmarks[i].collectionId \in Ids(data.collections)

Snapshots ==
  { data \in [collections : { s \in SeqsUpTo(CollectionPool, MaxItems) : DistinctIds(s) },
              bookmarks   : { s \in SeqsUpTo(BookmarkPool, MaxItems) : DistinctIds(s) },
              lastUpdated : {3000}] :
      References(data) }

NoSnapshot == [collections |-> <<>>, bookmarks |-> <<>>, lastUpdated |-> -1]

\* ------------------------------------------------ JSON text (gist-storage.ts)
\* JSON.stringify(value, null, 2) of an object is modelled by the sequence of
\* its <<key, value>> members, in the order of the properties; a property whose
\* value is undefined is left out.
StringifyCollection(c) == << <<"id", c.id>>, <<"name", c.name>> >>

\* JSON.stringify of a bookmark that leaves out the optional property
StringifyBookmarkNoPinned(b) ==
  << <<"id", b.id>>, <<"collectionId", b.collectionId>>, <<"title", b.title>>,
     <<"updatedAt", b.updatedAt>> >>

StringifyBookmark(b) ==
  << <<"id", b.id>>, <<"collectionId", b.collectionId>>, <<"title", b.title>> >>
  \o (IF b.pinned = NoValue THEN <<>> ELSE << <<"pinned", b.pinned>> >>)
  \o << <<"updatedAt", b.updatedAt>> >>

Stringify(data) ==
  << <<"collections", [i \in 1..Len(data.collections) |->
                          StringifyCollection(data.collections[i])]>>,
     <<"bookmarks", [i \in 1..Len(data.bookmarks) |->
                        StringifyBookmark(data.bookmarks[i])]>>,
     <<"lastUpdated", data.lastUpdated>> >>

Has(members, key) == \E i \in 1..Len(members) : members[i][1] = key

Member(members, key) == members[CHOOSE i \in 1..Len(members) : members[i][1] = key][2]

ParseCollection(m) == [id |-> Member(m, "id"), name |-> Member(m, "name")]

ParseBookmark(m) ==
  [id |-> Member(m, "id"), collectionId |-> Member(m, "collectionId"),
   title |-> Member(m, "title"),
   pinned |-> IF Has(m, "pinned") THEN Member(m, "pinned") ELSE NoValue,
   updatedAt |-> Member(m, "updatedAt")]

\* JSON.parse(dataFile.content) for a content that is the text of a BookmarkData
Parse(content) ==
  LET cs == Member(content, "collections")
      bs == Member(content, "bookmarks")
  IN  [collections |-> [i \in 1..Len(cs) |-> ParseCollection(cs[i])],
       bookmarks   |-> [i \in 1..Len(bs) |-> ParseBookmark(bs[i])],
       lastUpdated |-> Member(content, "lastUpdated")]

\* ------------------------------------------- generateChecksum (gist-storage.ts)
\* character codes of the pieces of JSON.stringify(data, Object.keys(data).sort()).
\* The replacer array ['bookmarks', 'collections', 'lastUpdated'] selects the
\* properties of every object of the value, the items of the two arrays
\* included: an item has none of the three, so its text is {}.
TextOpen == <<123, 34, 98, 111, 111, 107, 109, 97, 114, 107, 115, 34, 58, 91>>
TextMiddle == <<93, 44, 34, 99, 111, 108, 108, 101, 99, 116, 105, 111, 110, 115, 34, 58, 91>>
TextLast == <<93, 44, 34, 108, 97, 115, 116, 85, 112, 100, 97, 116, 101, 100, 34, 58, 34>>
TextClose == <<34, 125>>
TextItem == <<123, 125>>
TextComma == <<44>>
TextIsoHead == <<49, 57, 55, 48, 45, 48, 49, 45, 48, 49, 84, 48, 48, 58, 48, 48, 58, 48>>

Digit(n) == 48 + n

\* new Date(t).toISOString() for 0 <= t < 10000, as character codes
IsoText(t) ==
  TextIsoHead \o << Digit(t \div 1000), 46, Digit((t \div 100) % 10),
                    Digit((t \div 10) % 10), Digit(t % 10), 90 >>

RECURSIVE TextItems(_)
TextItems(n) ==
  IF n = 0 THEN <<>>
  ELSE IF n = 1 THEN TextItem
  ELSE TextItems(n - 1) \o TextComma \o TextItem

\* JSON.stringify(data, ['bookmarks', 'collections', 'lastUpdated'])
StringifyKeys(data) ==
  TextOpen \o TextItems(Len(data.bookmarks)) \o TextMiddle
  \o TextItems(Len(data.collections)) \o TextLast
  \o IsoText(data.lastUpdated) \o TextClose

\* hash = ((hash << 5) - hash) + char; hash = hash & hash: 31 * hash + char
\* modulo 2^32.  The 32 bits are held as two halves of 16 bits.
HashStep(hash, char) ==
  LET lo == 31 * hash.lo + char
  IN  [lo |-> lo % 65536, hi |-> (31 * hash.hi + lo \div 65536) % 65536]

\* the loop over str[i..j], started with hash.  The range is halved and the
\* hash of the left half is worked out (the test of its sign) before the right
\* half starts, which keeps the evaluation shallow; the steps are taken in the
\* order of the characters.
RECURSIVE HashFrom(_, _, _, _)
HashFrom(str, i, j, hash) ==
  IF i > j THEN hash
  ELSE IF i = j THEN HashStep(hash, str[i])
  ELSE LET mid  == (i + j) \div 2
           left == HashFrom(str, i, mid, hash)
       IN  IF left.lo >= 0 THEN HashFrom(str, mid + 1, j, left) ELSE left

\* Math.abs of the 32-bit integer: the two halves of its magnitude
AbsHash(hash) ==
  IF hash.hi < 32768 THEN hash
  ELSE [lo |-> (65536 - hash.lo) % 65536,
        hi |-> 65535 - hash.hi + (IF hash.lo = 0 THEN 1 ELSE 0)]

\* the digits of n.toString(36), the most significant first, for n < 2^31
RECURSIVE Base36(_)
Base36(n) == IF n < 36 THEN <<n>> ELSE Append(Base36(n \div 36), n % 36)

\* Math.abs(hash).toString(36); 2^31 itself is 'zik0zk'
ToString36(m) ==
  IF m.hi = 32768 THEN <<35, 18, 20, 0, 35, 20>>
  ELSE Base36(m.hi * 65536 + m.lo)

GenerateChecksum(data) ==
  LET str == StringifyKeys(data)
  IN  ToString36(AbsHash(HashFrom(str, 1, Len(str), [lo |-> 0, hi |-> 0])))

\* -------------------------------------------------- mergeData with the items
\* new Date(text).getTime() of a collection's name: a number for a name that
\* reads as a date, NaN (-1 here, and no comparison with it is true) otherwise
NameTime(name) ==
  CASE name = "2023" -> 2023
    [] name = "2024" -> 2024
    [] OTHER -> -1

\* new Date(a.name).getTime() > new Date(b.name).getTime()
NameLater(a, b) ==
  NameTime(a.name) # -1 /\ NameTime(b.name) # -1 /\ NameTime(a.name) > NameTime(b.name)

UpdatedLater(a, b) == a.updatedAt > b.updatedAt

\* a comparison that takes the item seen first for the later one
LaterNever(kind, a, b) == FALSE

\* the comparison of the loop over the collections and of the loop over the bookmarks
Later(kind, a, b) == IF kind = "collections" THEN NameLater(a, b) ELSE UpdatedLater(a, b)

Position(list, id) == CHOOSE i \in 1..Len(list) : list[i].id = id

\* one forEach loop of mergeData over [...local, ...remote]: a Map by id in
\* which an item replaces the one stored for its id when it is later
RECURSIVE MergeInto(_, _, _, _)
MergeInto(map, list, i, kind) ==
  IF i > Len(list) THEN map
  ELSE LET x == list[i]
       IN  IF x.id \notin Ids(map)
           THEN MergeInto(Append(map, x), list, i + 1, kind)
           ELSE IF Later(kind, x, map[Position(map, x.id)])
           THEN MergeInto([map EXCEPT ![Position(map, x.id)] = x], list, i + 1, kind)
           ELSE MergeInto(map, list, i + 1, kind)

\* mergeData that keeps the local collections only
MergeItemsLocalCollections(localData, remoteData, t) ==
  [collections |-> localData.collections,
   bookmarks   |-> MergeInto(<<>>, localData.bookmarks \o remoteData.bookmarks, 1, "bookmarks"),
   lastUpdated |-> t]

\* mergeData(localData, remoteData) with the items; t is the time of the call
MergeItems(localData, remoteData, t) ==
  [collections |-> MergeInto(<<>>, localData.collections \o remoteData.collections, 1, "collections"),
   bookmarks   |-> MergeInto(<<>>, localData.bookmarks \o remoteData.bookmarks, 1, "bookmarks"),
   lastUpdated |-> t]

\* ------------------------------------------ the gist's files and the download
NoDoc == [content |-> <<>>, metadata |-> <<>>]

\* createMetadata(data) as JSON text, with the checksum
MetadataText(data, dev, t) ==
  << <<"lastSync", t>>, <<"deviceId", dev>>, <<"syncCount", 1>>,
     <<"checksum", GenerateChecksum(data)>> >>

\* the files createBookmarkGist / updateBookmarkGist send
Files(data, dev, t) == [content |-> Stringify(data), metadata |-> MetadataText(data, dev, t)]

\* parseGistData(gist) with the items: null (NoSnapshot) when the data file is
\* missing or empty or lacks collections, bookmarks or lastUpdated
ParseFiles(files) ==
  IF files.content = <<>> THEN NoSnapshot
  ELSE IF ~(Has(files.content, "collections") /\ Has(files.content, "bookmarks")
            /\ Has(files.content, "lastUpdated"))
  THEN NoSnapshot
  ELSE Parse(files.content)

\* downloadFromGist() of an authenticated client whose lookup request went through
DownloadFromGist(files) ==
  IF files = NoDoc
  THEN [NoResult EXCEPT !.action = "downloaded", !.error = "No bookmark data found"]
  ELSE IF ParseFiles(files) = NoSnapshot
  THEN [NoResult EXCEPT !.action = "downloaded", !.error = "Failed to parse"]
  ELSE [NoResult EXCEPT !.success = TRUE, !.action = "downloaded",
                        !.data = ParseFiles(files), !.gistId = 1]

\* nothing has been applied yet
DataIdle ==
  /\ doc = NoDoc
  /\ downloaded = NoResult
  /\ merged = NoSnapshot
  /\ sums = <<>>

DataStart ==
  /\ dLocal = NoSnapshot
  /\ dRemote = NoSnapshot
  /\ DataIdle

\* ------------------------------------- the lookup of the bookmark gist by a list
MaxListed == 3    \* gists of the account

\* texts are tuples of characters
GIST_FILENAME ==
  <<"s", "h", "e", "l", "f", "-", "b", "o", "o", "k", "m", "a", "r", "k", "s", ".",
    "j", "s", "o", "n">>

GIST_DESCRIPTION ==
  <<"S", "h", "e", "l", "f", " ", "3", "D", " ", "B", "o", "o", "k", "m", "a", "r",
    "k", " ", "M", "a", "n", "a", "g", "e", "r", " ", "-", " ", "B", "o", "o", "k",
    "m", "a", "r", "k", " ", "D", "a", "t", "a">>

BACKUP_FILENAME_PREFIX ==
  <<"s", "h", "e", "l", "f", "-", "b", "o", "o", "k", "m", "a", "r", "k", "s", "-",
    "b", "a", "c", "k", "u", "p", "-">>

METADATA_FILENAME ==
  <<"s", "h", "e", "l", "f", "-", "m", "e", "t", "a", "d", "a", "t", "a", ".", "j",
    "s", "o", "n">>

UpperCase ==
  <<"A", "B", "C", "D", "E", "F", "G", "H", "I", "J", "K", "L", "M",
    "N", "O", "P", "Q", "R", "S", "T", "U", "V", "W", "X", "Y", "Z">>

LowerCase ==
  <<"a", "b", "c", "d", "e", "f", "g", "h", "i", "j", "k", "l", "m",
    "n", "o", "p", "q", "r", "s", "t", "u", "v", "w", "x", "y", "z">>

\* String.prototype.toLowerCase
ToLowerCase(text) ==
  [i \in 1..Len(text) |->
     IF \E k \in 1..26 : UpperCase[k] = text[i]
     THEN LowerCase[CHOOSE k \in 1..26 : UpperCase[k] = text[i]]
     ELSE text[i]]

\* String.prototype.includes
Includes(text, word) ==
  \E i \in 1..(Len(text) - Len(word) + 1) : SubSeq(text, i, i + Len(word) - 1) = word

\* new Date().toISOString().replace(/[:.]/g, '-') at the time of the backup
BackupStamp ==
  <<"1", "9", "7", "0", "-", "0", "1", "-", "0", "1", "T", "0", "0", "-", "0", "0",
    "-", "0", "0", "-", "0", "0", "0", "Z">>

\* the gist createBookmarkGist posts
BookmarkGist(id) ==
  [id |-> id, description |-> GIST_DESCRIPTION, files |-> {GIST_FILENAME, METADATA_FILENAME}]

\* the gist createBackup(data) posts, with the default label
BackupGist(id) ==
  [id |-> id,
   description |-> GIST_DESCRIPTION \o <<" ", "-", " ", "B", "a", "c", "k", "u", "p", ":", " ", "A", "u", "t", "o", "-", "b", "a", "c", "k", "u", "p", "-">> \o BackupStamp,
   files |-> {BACKUP_FILENAME_PREFIX \o BackupStamp \o <<".", "j", "s", "o", "n">>, <<"b", "a", "c", "k", "u", "p", "-", "i", "n", "f", "o", ".", "j", "s", "o", "n">>}]

\* gists of the user that the application did not make: notes, and a list of
\* links the user describes as bookmarks
OtherGists(id) ==
  { [id |-> id, description |-> <<"n", "o", "t", "e", "s">>, files |-> {<<"t", "o", "d", "o", ".", "m", "d">>}],
    [id |-> id, description |-> <<"M", "y", " ", "B", "o", "o", "k", "m", "a", "r", "k", "s">>, files |-> {<<"l", "i", "n", "k", "s", ".", "m", "d">>}] }

\* the predicate gists.find applies
BookmarkRelated(gist) ==
  \/ Includes(ToLowerCase(gist.description), <<"s", "h", "e", "l", "f">>)
  \/ Includes(ToLowerCase(gist.description), <<"b", "o", "o", "k", "m", "a", "r", "k">>)
  \/ \E filename \in gist.files :
        Includes(filename, <<"s", "h", "e", "l", "f">>) \/ Includes(filename, <<"b", "o", "o", "k", "m", "a", "r", "k">>)

\* GitHubClient.findBookmarkGist on the listed gists: the first gist the
\* predicate accepts.  0 is null, else the position in the list.
ListFindBookmarkGist(list) ==
  LET hits == { i \in 1..Len(list) : BookmarkRelated(list[i]) }
  IN  IF hits = {} THEN 0 ELSE CHOOSE k \in hits : \A j \in hits : k <= j

\* GistStorageService.findBookmarkGist without a cached id: the gist of the
\* search when it holds the data file, else null (0)
FreshFindBookmarkGist(list) ==
  LET i == ListFindBookmarkGist(list)
  IN  IF i # 0 /\ GIST_FILENAME \in list[i].files THEN list[i].id ELSE 0

ListStart ==
  /\ account = <<>>
  /\ located = -1

\* ------------------------------------ bookmarkReducer (bookmark-context.tsx)
\* The reducer on snapshots with their items.  A collection is [id, name, order],
\* a bookmark [id, collectionId, title, pinned, order, updatedAt]; the other
\* properties of the form data are carried like title and name.
MaxClock == 6000        \* the reducer's clock stops here
DispatchMs == 1000      \* milliseconds between two dispatches

CollectionIds == {"c1", "c2"}
BookmarkIds == {"b1", "b2"}
Names == {"Work", "Home"}
Titles == {"t1", "t2"}

\* createEmptyBookmarkData() at the mount of the provider, time 0
EmptyData == [collections |-> <<>>, bookmarks |-> <<>>, lastUpdated |-> 0]

\* snapshots a download hands to LOAD_DATA
LoadPayloads ==
  { EmptyData,
    [collections |-> <<[id |-> "c1", name |-> "Work", order |-> 1]>>,
     bookmarks   |-> <<[id |-> "b1", collectionId |-> "c1", title |-> "t1",
                        pinned |-> FALSE, order |-> 1, updatedAt |-> 500]>>,
     lastUpdated |-> 500] }

\* the conflict data performSync hands to SET_CONFLICT_DATA, and null / undefined
ConflictPayload == [localData |-> EmptyData, remoteData |-> EmptyData]
NoConflictData == [localData |-> NoSnapshot, remoteData |-> NoSnapshot]

Filter(list, Keep(_)) == SelectSeq(list, Keep)

\* array.map with the items' positions
MapIndexed(list, F(_, _)) == [i \in 1..Len(list) |-> F(list[i], i)]

\* the orders in which a drag can leave the items of a list
Reorderings(list) ==
  { [i \in 1..Len(list) |-> list[p[i]]] : p \in Permutations(1..Len(list)) }

\* DELETE_COLLECTION that leaves the bookmarks alone
KeepBookmarks(bookmarks, id) == bookmarks

\* DELETE_COLLECTION: filteredBookmarks
FilteredBookmarks(bookmarks, id) == Filter(bookmarks, LAMBDA b : b.collectionId # id)

\* LOAD_DATA that stamps the snapshot it loads
LoadStamped(payload, t) == [payload EXCEPT !.lastUpdated = t]

\* LOAD_DATA: data: action.payload
Load(payload, t) == payload

ReducerStart ==
  /\ rnow = DispatchMs
  /\ rdata = EmptyData
  /\ rsync = [status |-> "idle", error |-> NoValue, conflictData |-> NoConflictData]
  /\ rsettings = [autoSync |-> TRUE]
  /\ rlast = [type |-> "none", loaded |-> NoSnapshot]

\* ------------------------------------------------------------------ Init
LoadedData == [items |-> {}, lastUpdated |-> 0]

\* defaultSyncSettings
AutoSync == TRUE
SyncOnStartup == TRUE

\* the providers, clients (as far as the sync reads them) and documents at the start
SyncStart ==
  /\ gists = <<>>
  /\ local = [d \in Devices |-> LoadedData]
  /\ token \in [Devices -> BOOLEAN]
  /\ connected = token
  /\ gistId = [d \in Devices |-> 0]
  /\ status = [d \in Devices |-> "idle"]
  /\ conflictData = [d \in Devices |-> NoConflict]
  /\ debounce = [d \in Devices |-> NoData]
  /\ startup = [d \in Devices |-> SyncOnStartup /\ connected[d]]
  /\ ivData = [d \in Devices |-> LoadedData]
  /\ started = 0
  /\ edits = 0
  /\ resolves = 0
  /\ faults = 0
  /\ call = [d \in Devices |-> [c \in Calls |-> FreeCall]]

\* a GitHubClient that holds a stored token and has made no request
ClientStart ==
  /\ cnow = 0
  /\ accessToken = TRUE
  /\ tokenExpiresAt = 0
  /\ storedToken = TRUE
  /\ rateLimit = NoRateLimit
  /\ req = [r \in Reqs |-> IdleReq]
  /\ requests = 0
  /\ logins = 0

\* the provider after its mount: the load effect has dispatched LOAD_DATA, which
\* leaves state.loading as initialState set it, and 'idle'
ProviderStart ==
  /\ tnow = 0
  /\ tstatus = "idle"
  /\ pdata = LoadedData
  /\ loading = TRUE
  /\ stored = NoData
  /\ timers = {}
  /\ timeoutRef = 0
  /\ events = <<>>

\* ------------------------------------------- the API routes (app/api/.../route.ts)
\* The route handlers run in one server process and import the one githubClient
\* of lib/github.ts.  On the server typeof window is 'undefined': the client
\* starts without a token, storeToken keeps no expiry, and isAuthenticated() is
\* "this.accessToken is set".  A credential is named by the user it belongs to,
\* a document by the user whose data it holds; requests carry no credential of
\* their own.
Users == {"alice", "bob", "carol"}

NoUser == "none"

SyncActions == {"sync", "upload", "download", "resolve_conflict", "export"}

SyncResults == {"uploaded", "downloaded", "conflict"}

BodyResolutions == Resolutions \cup {"theirs", NoUser}

CallbackResults == {"token", "noToken", "error"}

\* A NextResponse of the sync route: who sent the request, the HTTP status,
\* the account whose credential the requests to GitHub carried, the author of
\* the remote document's data it returns, and whether it wrote that document.
Answer(caller, code, owner, data, written) ==
  [caller |-> caller, status |-> code, account |-> owner, read |-> data,
   wrote |-> written]

NoResponse == Answer(NoUser, 0, NoUser, NoUser, FALSE)

RouteStart ==
  /\ serverToken = NoUser
  /\ authenticated = {}
  /\ remoteDoc = [u \in Users |-> NoUser]
  /\ response = NoResponse

Init ==
  /\ now = 0
  /\ SyncStart
  /\ ClientStart
  /\ DataStart
  /\ ProviderStart
  /\ RouteStart
  /\ ReducerStart
  /\ ListStart

\* ------------------------------------------------------ bookmark-context.tsx
\* The interval effect re-runs when state.sync.status changes and then holds the
\* performSync of that render; its callback only acts while that status is idle.
IvNext(d, status2, local2) ==
  IF status2[d] = "idle" /\ connected[d]
  THEN (IF status[d] # "idle" THEN local2[d] ELSE ivData[d])
  ELSE NoData

FreeSlot(d) ==
  CHOOSE c \in Calls : /\ call[d][c].pc = "free"
                       /\ \A c2 \in Calls : call[d][c2].pc = "free" => c <= c2

\* performSync of a render whose state.data is data and state.sync.status is cap,
\* up to its first await: the isConnectedToGitHub test, the dispatch of
\* 'syncing', and the isAuthenticated test that opens syncWithGist.
PerformSync(d, data, cap) ==
  /\ started < MaxSyncs
  /\ \E c \in Calls : call[d][c].pc = "free"
  /\ started' = started + 1
  /\ LET c == FreeSlot(d)
          status2 == IF connected[d] THEN [status EXCEPT ![d] = "syncing"] ELSE status
     IN  /\ status' = status2
         /\ ivData' = [ivData EXCEPT ![d] = IvNext(d, status2, local)]
         /\ call' = [call EXCEPT ![d][c] =
               IF ~connected[d]
               THEN [FreeCall EXCEPT !.pc = "out", !.res = NotConnected]
               ELSE IF ~token[d]
               THEN [FreeCall EXCEPT !.pc = "ret", !.data = data, !.capStatus = cap,
                                     !.res = SyncNotAuthenticated]
               ELSE [FreeCall EXCEPT !.pc = "find", !.data = data, !.capStatus = cap]]
  /\ UNCHANGED <<now, gists, local, token, connected, gistId, conflictData, edits, faults, resolves>>
  /\ UNCHANGED <<cvars, dvars, pvars, lvars, rvars, avars>>

\* syncData from the sync panel, whose buttons are disabled while syncing
ManualSync(d) ==
  /\ status[d] # "syncing"
  /\ PerformSync(d, local[d], status[d])
  /\ UNCHANGED <<debounce, startup>>

\* the 2 s timer of triggerAutoSync fires
DebounceFire(d) ==
  /\ debounce[d] # NoData
  /\ PerformSync(d, debounce[d], "idle")
  /\ debounce' = [debounce EXCEPT ![d] = NoData]
  /\ UNCHANGED startup

\* the 1 s timer of the load effect fires
StartupFire(d) ==
  /\ startup[d]
  /\ PerformSync(d, LoadedData, "idle")
  /\ startup' = [startup EXCEPT ![d] = FALSE]
  /\ UNCHANGED debounce

\* the auto-sync interval fires
IntervalFire(d) ==
  /\ AutoSync /\ connected[d]
  /\ status[d] = "idle"
  /\ PerformSync(d, ivData[d], "idle")
  /\ UNCHANGED <<debounce, startup>>

\* a performSync that returned without syncing hands its result to the caller
Return(d, c) ==
  /\ call[d][c].pc = "out"
  /\ call' = [call EXCEPT ![d][c] = FreeCall]
  /\ UNCHANGED <<now, gists, local, token, connected, gistId, status, conflictData,
                 debounce, startup, ivData, started, edits, faults, resolves>>
  /\ UNCHANGED <<cvars, dvars, pvars, lvars, rvars, avars>>

\* syncWithGist: findBookmarkGist answers; parse, detectConflict, sync direction;
\* on the upload branch uploadToGist starts with its isAuthenticated test.
Find(d, c) ==
  /\ call[d][c].pc = "find"
  /\ \E r \in FindBookmarkGist(d) :
       LET th  == call[d][c]
           pkg == ParseGistData(r.found)
           lost2 == IF r.lost # "none" THEN r.lost ELSE th.lost
       IN  /\ token' = [token EXCEPT ![d] = r.tok]
           /\ gistId' = [gistId EXCEPT ![d] = r.cache]
           /\ faults' = r.nf
           /\ call' = [call EXCEPT ![d][c] =
                 IF SyncDecision(th.data, pkg, d) = "upload"
                 THEN IF r.tok
                      THEN [th EXCEPT !.pc = "ufind", !.seen = pkg, !.lost = lost2,
                                      !.unparsed = Unparsed(r.found)]
                      ELSE [th EXCEPT !.pc = "ret", !.seen = pkg, !.lost = lost2,
                                      !.unparsed = Unparsed(r.found),
                                      !.res = UploadNotAuthenticated]
                 ELSE [th EXCEPT !.pc = "ret", !.seen = pkg, !.lost = lost2,
                                 !.unparsed = Unparsed(r.found),
                                 !.res = SyncReturn(th.data, pkg, d)]]
  /\ UNCHANGED <<now, gists, local, connected, status, conflictData, debounce,
                 startup, ivData, started, edits, resolves>>
  /\ UNCHANGED <<cvars, dvars, pvars, lvars, rvars, avars>>

\* uploadToGist: its own findBookmarkGist answers
UploadFind(d, c) ==
  /\ call[d][c].pc = "ufind"
  /\ \E r \in FindBookmarkGist(d) :
       LET th == call[d][c]
       IN  /\ token' = [token EXCEPT ![d] = r.tok]
           /\ gistId' = [gistId EXCEPT ![d] = r.cache]
           /\ faults' = r.nf
           /\ call' = [call EXCEPT ![d][c] =
                 [th EXCEPT !.pc = "write", !.target = r.found,
                            !.lost = IF r.lost # "none" THEN r.lost ELSE th.lost]]
  /\ UNCHANGED <<now, gists, local, connected, status, conflictData, debounce,
                 startup, ivData, started, edits, resolves>>
  /\ UNCHANGED <<cvars, dvars, pvars, lvars, rvars, avars>>

\* updateBookmarkGist(existingGist.id, data): no currentMetadata is passed
UpdateBookmarkGist(id, data, dev) ==
  [gists EXCEPT ![id] = [data |-> data, meta |-> CreateMetadata(dev, 0), ok |-> TRUE]]

\* createBookmarkGist(data): a new gist
CreateBookmarkGist(data, dev) ==
  Append(gists, [data |-> data, meta |-> CreateMetadata(dev, 0), ok |-> TRUE])

\* gist.id of the gist createGist returns
CreatedGistId == Len(gists) + 1

\* storeGistId that stores nothing
StoreGistIdSkipped(dev, id) == gistId

\* storeGistId(gistId)
StoreGistId(dev, id) == [gistId EXCEPT ![dev] = id]

\* uploadToGist: the PATCH or POST request answers
Write(d, c) ==
  /\ call[d][c].pc = "write"
  /\ \E o \in Outcomes(token[d], faults) :
       LET th == call[d][c]
       IN  IF o = "ok"
           THEN /\ gists' = IF th.target # 0
                            THEN UpdateBookmarkGist(th.target, th.data, d)
                            ELSE CreateBookmarkGist(th.data, d)
                /\ gistId' = IF th.target # 0 THEN gistId
                             ELSE StoreGistId(d, CreatedGistId)
                /\ call' = [call EXCEPT ![d][c] =
                      [th EXCEPT !.pc = "ret", !.wrote = TRUE,
                         !.res = UploadOk(th.data,
                                   IF th.target # 0 THEN th.target ELSE CreatedGistId)]]
                /\ UNCHANGED <<token, faults>>
           ELSE /\ token' = [token EXCEPT ![d] = TokenAfter(token[d], o)]
                /\ faults' = faults + Failed(token[d], o)
                /\ call' = [call EXCEPT ![d][c] =
                      [th EXCEPT !.pc = "ret", !.werr = o, !.res = UploadCatch(o)]]
                /\ UNCHANGED <<gists, gistId>>
  /\ UNCHANGED <<now, local, connected, status, conflictData, debounce, startup,
                 ivData, started, edits, resolves>>
  /\ UNCHANGED <<cvars, dvars, pvars, lvars, rvars, avars>>

\* performSync after syncWithGist returned: LOAD_DATA, SET_SYNC_STATUS,
\* SET_CONFLICT_DATA; a success arms the 3 s auto-clear timer.
Finish(d, c) ==
  /\ call[d][c].pc = "ret"
  /\ call[d][c].resolution = "none"
  /\ LET th  == call[d][c]
          res == th.res
          local2 == IF res.success /\ res.action = "downloaded" /\ res.data # NoData
                    THEN [local EXCEPT ![d] = res.data] ELSE local
          status2 == [status EXCEPT ![d] =
                        IF res.success THEN "success"
                        ELSE IF res.action = "conflict" /\ res.conflict # "none"
                        THEN "conflict" ELSE "error"]
     IN  /\ local' = local2
         /\ status' = status2
         /\ ivData' = [ivData EXCEPT ![d] = IvNext(d, status2, local2)]
         /\ conflictData' =
               IF ~res.success /\ res.action = "conflict" /\ res.conflict # "none"
               THEN [conflictData EXCEPT ![d] =
                       [type |-> res.conflict, localData |-> th.data,
                        remoteData |-> th.seen.data]]
               ELSE conflictData
         /\ call' = [call EXCEPT ![d][c] =
               IF res.success
               THEN [FreeCall EXCEPT !.pc = "timer", !.capStatus = th.capStatus]
               ELSE FreeCall]
  /\ UNCHANGED <<now, gists, token, connected, gistId, debounce, startup, started, edits, faults, resolves>>
  /\ UNCHANGED <<cvars, dvars, pvars, lvars, rvars, avars>>

\* resolveConflict(resolution) of the context up to its first await.  Without
\* conflict data it returns 'No conflict to resolve' and changes nothing (a
\* stuttering step); else it dispatches 'syncing' and calls
\* resolveConflict of the storage service, which for 'remote' returns without
\* a request and else opens uploadToGist(dataToUpload).
ResolveConflict(d, resolution) ==
  /\ conflictData[d] # NoConflict
  /\ resolves < MaxResolves
  /\ resolves' = resolves + 1
  /\ \E c \in Calls : call[d][c].pc = "free"
  /\ LET c == FreeSlot(d)
          conflict == conflictData[d]
          status2 == [status EXCEPT ![d] = "syncing"]
          th == [FreeCall EXCEPT !.resolution = resolution]
     IN  /\ status' = status2
         /\ ivData' = [ivData EXCEPT ![d] = IvNext(d, status2, local)]
         /\ call' = [call EXCEPT ![d][c] =
               IF resolution = "remote"
               THEN [th EXCEPT !.pc = "ret", !.res = ResolveRemote(conflict)]
               ELSE IF ~token[d]
               THEN [th EXCEPT !.pc = "ret", !.res = UploadNotAuthenticated,
                               !.data = DataToUpload(conflict, resolution)]
               ELSE [th EXCEPT !.pc = "ufind",
                               !.data = DataToUpload(conflict, resolution)]]
  /\ UNCHANGED <<now, gists, local, token, connected, gistId, conflictData,
                 debounce, startup, started, edits, faults>>
  /\ UNCHANGED <<cvars, dvars, pvars, lvars, rvars, avars>>

\* resolveConflict of the context after the storage service returned: on
\* success LOAD_DATA, SET_CONFLICT_DATA null and status 'success', else 'error'
ResolveFinish(d, c) ==
  /\ call[d][c].pc = "ret"
  /\ call[d][c].resolution # "none"
  /\ LET res == call[d][c].res
          ok  == res.success /\ res.data # NoData
          local2  == IF ok THEN [local EXCEPT ![d] = res.data] ELSE local
          status2 == [status EXCEPT ![d] = IF ok THEN "success" ELSE "error"]
     IN  /\ local' = local2
         /\ status' = status2
         /\ ivData' = [ivData EXCEPT ![d] = IvNext(d, status2, local2)]
         /\ conflictData' = IF ok THEN [conflictData EXCEPT ![d] = NoConflict]
                            ELSE conflictData
  /\ call' = [call EXCEPT ![d][c] = FreeCall]
  /\ UNCHANGED <<now, gists, token, connected, gistId, debounce, startup, started,
                 edits, faults, resolves>>
  /\ UNCHANGED <<cvars, dvars, pvars, lvars, rvars, avars>>

\* the 3 s timer armed by a successful performSync fires: it tests the status
\* its closure captured
AutoClear(d, c) ==
  /\ call[d][c].pc = "timer"
  /\ LET status2 == IF call[d][c].capStatus = "success"
                     THEN [status EXCEPT ![d] = "idle"] ELSE status
     IN  /\ status' = status2
         /\ ivData' = [ivData EXCEPT ![d] = IvNext(d, status2, local)]
  /\ call' = [call EXCEPT ![d][c] = FreeCall]
  /\ UNCHANGED <<now, gists, local, token, connected, gistId, conflictData,
                 debounce, startup, started, edits, faults, resolves>>
  /\ UNCHANGED <<cvars, dvars, pvars, lvars, rvars, avars>>

\* a CRUD action of the reducer through createActionWrapper: the snapshot
\* changes, lastUpdated is stamped, triggerAutoSync of the current render runs
Edit(d) ==
  /\ edits < MaxEdits
  /\ edits' = edits + 1
  /\ \E dt \in {0, TickMs} :
       /\ now' = now + dt
       /\ local' = [local EXCEPT ![d] =
             [items |-> IF d \in @.items THEN @.items \ {d} ELSE @.items \cup {d},
              lastUpdated |-> now + dt]]
  /\ debounce' = IF AutoSync /\ connected[d] /\ status[d] = "idle"
                 THEN [debounce EXCEPT ![d] = local[d]] ELSE debounce
  /\ UNCHANGED <<gists, token, connected, gistId, status, conflictData,
                 startup, ivData, started, faults, call, resolves>>
  /\ UNCHANGED <<cvars, dvars, pvars, lvars, rvars, avars>>

\* clearSyncError: CLEAR_SYNC_ERROR
ClearSyncError(d) ==
  /\ status[d] = "error"
  /\ status' = [status EXCEPT ![d] = "idle"]
  /\ ivData' = [ivData EXCEPT ![d] = IvNext(d, status', local)]
  /\ UNCHANGED <<now, gists, local, token, connected, gistId, conflictData,
                 debounce, startup, started, edits, faults, call, resolves>>
  /\ UNCHANGED <<cvars, dvars, pvars, lvars, rvars, avars>>

\* the token reaches tokenExpiresAt: isAuthenticated() turns false
TokenExpire(d) ==
  /\ token[d]
  /\ faults < MaxFaults
  /\ faults' = faults + 1
  /\ token' = [token EXCEPT ![d] = FALSE]
  /\ UNCHANGED <<now, gists, local, connected, gistId, status, conflictData,
                 debounce, startup, ivData, started, edits, call, resolves>>
  /\ UNCHANGED <<cvars, dvars, pvars, lvars, rvars, avars>>

\* the content of a stored document is changed from outside the application
\* (edited by hand, truncated) into one that parseGistData rejects
Corrupt(id) ==
  /\ gists[id].ok
  /\ faults < MaxFaults
  /\ faults' = faults + 1
  /\ gists' = [gists EXCEPT ![id] = [data |-> NoData, meta |-> NoMeta, ok |-> FALSE]]
  /\ UNCHANGED <<now, local, token, connected, gistId, status, conflictData,
                 debounce, startup, ivData, started, edits, call, resolves>>
  /\ UNCHANGED <<cvars, dvars, pvars, lvars, rvars, avars>>

Next ==
  \/ \E id \in 1..Len(gists) : Corrupt(id)
  \/ \E d \in Devices :
        \/ ManualSync(d)
        \/ DebounceFire(d)
        \/ StartupFire(d)
        \/ IntervalFire(d)
        \/ ClearSyncError(d)
        \/ TokenExpire(d)
        \/ Edit(d)
        \/ \E resolution \in Resolutions : ResolveConflict(d, resolution)
        \/ \E c \in Calls :
              \/ ResolveFinish(d, c)
              \/ Return(d, c)
              \/ Find(d, c)
              \/ UploadFind(d, c)
              \/ Write(d, c)
              \/ Finish(d, c)
              \/ AutoClear(d, c)

Spec == Init /\ [][Next]_vars

\* ------------------------------------------------ github.ts, the client's steps
\* fetch(url, options) is issued at time t by request rec
Fetch(rec, attempt, t) ==
  [rec EXCEPT !.pc = "fetch", !.attempt = attempt, !.sent = @ + 1,
              !.unchecked = @ \/ QuotaLow(rateLimit, t)]

\* makeRequest up to its first await: isAuthenticated (an expired token is
\* cleared), checkRateLimit (a delay until the reset plus one second, or none),
\* and, when there is no delay, the first fetch of makeRequestWithRetry.
MakeRequest(r) ==
  /\ req[r].pc \in {"idle", "done"}
  /\ requests < MaxRequests
  /\ requests' = requests + 1
  /\ IF IsAuthenticated(cnow)
     THEN /\ req' = [req EXCEPT ![r] =
                 IF QuotaLow(rateLimit, cnow)
                 THEN [IdleReq EXCEPT !.pc = "wait",
                         !.wake = rateLimit.reset + RATE_LIMIT_WAIT_BUFFER]
                 ELSE Fetch(IdleReq, 1, cnow)]
          /\ UNCHANGED <<accessToken, tokenExpiresAt, storedToken>>
     ELSE /\ req' = [req EXCEPT ![r] =
                 [IdleReq EXCEPT !.pc = "done", !.out = "auth", !.status = 401,
                                 !.msg = "Not authenticated"]]
          /\ IF accessToken
             THEN accessToken' = FALSE /\ tokenExpiresAt' = 0 /\ storedToken' = FALSE
             ELSE UNCHANGED <<accessToken, tokenExpiresAt, storedToken>>
  /\ UNCHANGED <<cnow, rateLimit, logins>>
  /\ UNCHANGED <<svars, dvars, pvars, lvars, rvars, avars>>

\* the delay of checkRateLimit ends: makeRequestWithRetry issues the first fetch
WakeRateLimit(r) ==
  /\ req[r].pc = "wait"
  /\ cnow' = Max(cnow, req[r].wake)
  /\ req' = [req EXCEPT ![r] = Fetch(@, 1, cnow')]
  /\ UNCHANGED <<accessToken, tokenExpiresAt, storedToken, rateLimit, requests, logins>>
  /\ UNCHANGED <<svars, dvars, pvars, lvars, rvars, avars>>

\* fetch settles: the quota headers are recorded, then the response is handled
Respond(r, resp, remaining) ==
  /\ req[r].pc = "fetch"
  /\ LET rec == req[r]
          dp  == Disposition(resp, rec.attempt)
          rl2 == UpdateRateLimit(resp, remaining, cnow)
     IN  /\ rateLimit' = rl2
         /\ IF dp.clear
            THEN accessToken' = FALSE /\ tokenExpiresAt' = 0 /\ storedToken' = FALSE
            ELSE UNCHANGED <<accessToken, tokenExpiresAt, storedToken>>
         /\ req' = [req EXCEPT ![r] =
               IF dp.kind = "retry"
               THEN [rec EXCEPT !.pc = "backoff", !.last = resp,
                                !.wake = cnow + RetryDelay(rec.attempt),
                                !.retried = @ \cup {resp},
                                !.delays = Append(@, RetryDelay(rec.attempt))]
               ELSE [rec EXCEPT !.pc = "done", !.last = resp, !.out = dp.out,
                                !.status = dp.status, !.msg = dp.msg,
                                !.resetTime = IF dp.out = "rate"
                                              THEN (IF remaining = -1 THEN 0 ELSE rl2.reset)
                                              ELSE 0]]
  /\ UNCHANGED <<cnow, requests, logins>>
  /\ UNCHANGED <<svars, dvars, pvars, lvars, rvars, avars>>

\* the backoff delay ends: makeRequestWithRetry(url, options, attempt + 1)
WakeRetry(r) ==
  /\ req[r].pc = "backoff"
  /\ cnow' = Max(cnow, req[r].wake)
  /\ req' = [req EXCEPT ![r] = Fetch(@, @.attempt + 1, cnow')]
  /\ UNCHANGED <<accessToken, tokenExpiresAt, storedToken, rateLimit, requests, logins>>
  /\ UNCHANGED <<svars, dvars, pvars, lvars, rvars, avars>>

\* exchangeCodeForToken succeeds: a new credential, with or without expires_in
SetToken(expires) ==
  /\ logins < MaxLogins
  /\ logins' = logins + 1
  /\ accessToken' = TRUE
  /\ storedToken' = TRUE
  /\ tokenExpiresAt' = IF expires THEN cnow + ExpiresMs ELSE tokenExpiresAt
  /\ UNCHANGED <<cnow, rateLimit, req, requests>>
  /\ UNCHANGED <<svars, dvars, pvars, lvars, rvars, avars>>

ClientNext ==
  \/ \E expires \in BOOLEAN : SetToken(expires)
  \/ \E r \in Reqs :
        \/ MakeRequest(r)
        \/ WakeRateLimit(r)
        \/ WakeRetry(r)
        \/ \E resp \in Responses, remaining \in Remainings : Respond(r, resp, remaining)

\* the client of a device that is logged in
ClientInit == Init /\ token = [d \in Devices |-> TRUE]

ClientSpec == ClientInit /\ [][ClientNext]_vars

\* ----------------------------------- the storage service on given snapshots
\* The functions read nothing but their arguments and the documents, so a
\* behaviour applies one of them to the snapshots it was handed, or an upload
\* and then a download.
\* uploadToGist(dLocal) whose requests go through: the gist holds the files
Upload ==
  /\ DataIdle
  /\ doc' = Files(dLocal, "A", now)
  /\ UNCHANGED <<dLocal, dRemote, downloaded, merged, sums>>
  /\ UNCHANGED <<svars, cvars, pvars, lvars, rvars, avars>>

\* downloadFromGist()
Download ==
  /\ downloaded = NoResult /\ merged = NoSnapshot /\ sums = <<>>
  /\ downloaded' = DownloadFromGist(doc)
  /\ UNCHANGED <<dLocal, dRemote, doc, merged, sums>>
  /\ UNCHANGED <<svars, cvars, pvars, lvars, rvars, avars>>

\* mergeData(dLocal, dRemote)
Merge ==
  /\ DataIdle
  /\ merged' = MergeItems(dLocal, dRemote, now)
  /\ UNCHANGED <<dLocal, dRemote, doc, downloaded, sums>>
  /\ UNCHANGED <<svars, cvars, pvars, lvars, rvars, avars>>

\* generateChecksum of the two snapshots
Checksum ==
  /\ DataIdle
  /\ sums' = <<GenerateChecksum(dLocal), GenerateChecksum(dRemote)>>
  /\ UNCHANGED <<dLocal, dRemote, doc, downloaded, merged>>
  /\ UNCHANGED <<svars, cvars, pvars, lvars, rvars, avars>>

DataNext == Upload \/ Download \/ Merge \/ Checksum

\* the service of device A, logged in, handed two snapshots
DataInit ==
  /\ now = DataNow
  /\ SyncStart
  /\ token = [d \in Devices |-> TRUE]
  /\ ClientStart
  /\ ProviderStart
  /\ RouteStart
  /\ ReducerStart
  /\ ListStart
  /\ dLocal \in Snapshots
  /\ dRemote \in Snapshots
  /\ DataIdle

DataSpec == DataInit /\ [][DataNext]_vars

\* ------------------------- bookmark-context.tsx, one provider with its timers
AUTO_SYNC_DELAY == 2000

Statuses == {"idle", "syncing", "success", "error", "conflict"}

Min(a, b) == IF a < b THEN a ELSE b

\* the earliest due time of a set of pending timeouts (bound when there is none)
NextDue(ts, bound) == IF ts = {} THEN bound ELSE CHOOSE t \in ts : \A u \in ts : t <= u

\* a clearTimeout that cancels nothing
ClearTimeoutSkipped(ts, ref) == ts

\* clearTimeout(syncTimeoutRef.current)
ClearTimeout(ts, ref) == ts \ {ref}

\* the condition of triggerAutoSync
AutoSyncArmed == AutoSync /\ connected["A"] /\ tstatus = "idle"

\* time passes, up to the next due timeout
Tick ==
  /\ tnow < MaxTime
  /\ \A due \in timers : tnow < due
  /\ tnow' = Min(Min(tnow + StepMs, MaxTime), NextDue(timers, MaxTime))
  /\ UNCHANGED <<tstatus, pdata, loading, stored, timers, timeoutRef, events>>
  /\ UNCHANGED <<svars, cvars, dvars, lvars, rvars, avars>>

\* a CRUD action through createActionWrapper: the reducer changes the snapshot
\* and stamps lastUpdated, triggerAutoSync replaces the pending timeout when its
\* condition holds, and after the render the save effect runs
EditAt ==
  /\ Len(SelectSeq(events, LAMBDA e : e.type = "edit")) < MaxBurst
  /\ LET data2 == [items |-> IF "A" \in pdata.items THEN pdata.items \ {"A"}
                             ELSE pdata.items \cup {"A"},
                   lastUpdated |-> tnow]
     IN  /\ pdata' = data2
         /\ stored' = IF ~loading THEN data2 ELSE stored
  /\ IF AutoSyncArmed
     THEN /\ timers' = ClearTimeout(timers, timeoutRef) \cup {tnow + AUTO_SYNC_DELAY}
          /\ timeoutRef' = tnow + AUTO_SYNC_DELAY
     ELSE UNCHANGED <<timers, timeoutRef>>
  /\ events' = Append(events, [type |-> "edit", at |-> tnow, armed |-> AutoSyncArmed])
  /\ UNCHANGED <<tnow, tstatus, loading>>
  /\ UNCHANGED <<svars, cvars, dvars, lvars, rvars, avars>>

\* a timeout of triggerAutoSync is due: performSync('auto') dispatches 'syncing'
TimerFire ==
  /\ \E due \in timers :
       /\ tnow >= due
       /\ timers' = timers \ {due}
  /\ tstatus' = IF connected["A"] THEN "syncing" ELSE tstatus
  /\ events' = Append(events, [type |-> "sync", at |-> tnow, armed |-> FALSE])
  /\ UNCHANGED <<tnow, pdata, loading, stored, timeoutRef>>
  /\ UNCHANGED <<svars, cvars, dvars, lvars, rvars, avars>>

\* the reducer's SET_SYNC_STATUS, SET_CONFLICT_DATA and CLEAR_SYNC_ERROR, as
\* the syncs, the sync panel and the auto-clear timer dispatch them
SetSyncStatus(st) ==
  /\ st # tstatus
  /\ tstatus' = st
  /\ UNCHANGED <<tnow, pdata, loading, stored, timers, timeoutRef, events>>
  /\ UNCHANGED <<svars, cvars, dvars, lvars, rvars, avars>>

ProviderNext ==
  \/ Tick
  \/ EditAt
  \/ TimerFire
  \/ \E st \in Statuses : SetSyncStatus(st)

\* the provider of device A
ProviderSpec == Init /\ [][ProviderNext]_vars

\* ------------------------------------------- one account and a fresh client
\* list with gist g put in at position i
InsertAt(list, i, g) == SubSeq(list, 1, i - 1) \o <<g>> \o SubSeq(list, i, Len(list))

HasBookmarkGist == \E i \in 1..Len(account) : account[i] = BookmarkGist(account[i].id)

\* a gist is created and the list shows it at some position
Created(g) ==
  /\ located = -1
  /\ Len(account) < MaxListed
  /\ \E i \in 1..(Len(account) + 1) : account' = InsertAt(account, i, g)
  /\ UNCHANGED located
  /\ UNCHANGED <<svars, cvars, dvars, pvars, rvars, avars>>

\* the user creates a gist of their own
CreateOther == \E g \in OtherGists(Len(account) + 1) : Created(g)

\* a sync that found no bookmark gist uploads: createBookmarkGist
SyncUpload == ~HasBookmarkGist /\ Created(BookmarkGist(Len(account) + 1))

\* createBackup(data)
CreateBackup == \E g \in {BackupGist(Len(account) + 1)} : Created(g)

\* findBookmarkGist of a client that has no cached gist id
FreshFind ==
  /\ located = -1
  /\ located' = FreshFindBookmarkGist(account)
  /\ UNCHANGED account
  /\ UNCHANGED <<svars, cvars, dvars, pvars, rvars, avars>>

ListNext == SyncUpload \/ CreateBackup \/ CreateOther \/ FreshFind

ListSpec == Init /\ [][ListNext]_vars

\* ----------------------------------------------- the reducer, one dispatch a step
\* dispatch(action) at the time rnow; the clock has moved on at the next one
Dispatch(type, loaded) ==
  /\ rnow < MaxClock
  /\ rnow' = rnow + DispatchMs
  /\ rlast' = [type |-> type, loaded |-> loaded]

DataActions ==
  {"ADD_BOOKMARK", "UPDATE_BOOKMARK", "DELETE_BOOKMARK", "TOGGLE_BOOKMARK_PIN",
   "REORDER_BOOKMARKS", "ADD_COLLECTION", "UPDATE_COLLECTION", "DELETE_COLLECTION",
   "REORDER_COLLECTIONS"}

\* case 'LOAD_DATA'
LOAD_DATA ==
  \E payload \in LoadPayloads :
    /\ Dispatch("LOAD_DATA", payload)
    /\ rdata' = Load(payload, rnow)
    /\ UNCHANGED <<rsync, rsettings>>
  /\ UNCHANGED <<svars, cvars, dvars, pvars, lvars, avars>>

\* case 'ADD_BOOKMARK', with the form data of the bookmark form, which is opened
\* for a collection of the snapshot
ADD_BOOKMARK ==
  \E id \in BookmarkIds \ Ids(rdata.bookmarks), title \in Titles,
     collectionId \in Ids(rdata.collections) :
    LET payload == [title |-> title, collectionId |-> collectionId, pinned |-> FALSE]
        newBookmark ==
          [id |-> id, collectionId |-> payload.collectionId, title |-> payload.title,
           pinned |-> payload.pinned,
           order |-> Len(Filter(rdata.bookmarks,
                                LAMBDA b : b.collectionId = payload.collectionId)) + 1,
           updatedAt |-> rnow]
    IN  /\ Dispatch("ADD_BOOKMARK", NoSnapshot)
        /\ rdata' = [rdata EXCEPT !.bookmarks = Append(@, newBookmark),
                                  !.lastUpdated = rnow]
        /\ UNCHANGED <<rsync, rsettings>>
  /\ UNCHANGED <<svars, cvars, dvars, pvars, lvars, avars>>

\* case 'UPDATE_BOOKMARK', with the form data of the bookmark form, which keeps
\* the collection of the bookmark it edits
UPDATE_BOOKMARK ==
  \E i \in 1..Len(rdata.bookmarks), title \in Titles :
    LET id == rdata.bookmarks[i].id
        data == [title |-> title, collectionId |-> rdata.bookmarks[i].collectionId,
                 pinned |-> rdata.bookmarks[i].pinned]
        Updated(bookmark, k) ==
          IF bookmark.id = id
          THEN [bookmark EXCEPT !.title = data.title, !.collectionId = data.collectionId,
                                !.pinned = data.pinned, !.updatedAt = rnow]
          ELSE bookmark
    IN  /\ Dispatch("UPDATE_BOOKMARK", NoSnapshot)
        /\ rdata' = [rdata EXCEPT !.bookmarks = MapIndexed(@, Updated),
                                  !.lastUpdated = rnow]
        /\ UNCHANGED <<rsync, rsettings>>
  /\ UNCHANGED <<svars, cvars, dvars, pvars, lvars, avars>>

\* case 'DELETE_BOOKMARK'
DELETE_BOOKMARK ==
  \E id \in Ids(rdata.bookmarks) :
    /\ Dispatch("DELETE_BOOKMARK", NoSnapshot)
    /\ rdata' = [rdata EXCEPT !.bookmarks = Filter(@, LAMBDA b : b.id # id),
                              !.lastUpdated = rnow]
    /\ UNCHANGED <<rsync, rsettings>>
  /\ UNCHANGED <<svars, cvars, dvars, pvars, lvars, avars>>

\* case 'TOGGLE_BOOKMARK_PIN'
TOGGLE_BOOKMARK_PIN ==
  \E id \in Ids(rdata.bookmarks) :
    LET Toggled(bookmark, k) ==
          IF bookmark.id = id
          THEN [bookmark EXCEPT !.pinned = ~bookmark.pinned, !.updatedAt = rnow]
          ELSE bookmark
    IN  /\ Dispatch("TOGGLE_BOOKMARK_PIN", NoSnapshot)
        /\ rdata' = [rdata EXCEPT !.bookmarks = MapIndexed(@, Toggled),
                                  !.lastUpdated = rnow]
        /\ UNCHANGED <<rsync, rsettings>>
  /\ UNCHANGED <<svars, cvars, dvars, pvars, lvars, avars>>

\* case 'REORDER_BOOKMARKS', with the bookmarks of the collection shown, in the
\* order the drag left them
REORDER_BOOKMARKS ==
  \E collectionId \in Ids(rdata.collections) :
    \E bookmarks \in Reorderings(Filter(rdata.bookmarks,
                                        LAMBDA b : b.collectionId = collectionId)) :
      LET Placed(bookmark, index) ==
            [bookmark EXCEPT !.order = index, !.updatedAt = rnow]
          reorderedBookmarks == MapIndexed(bookmarks, Placed)
          otherBookmarks ==
            Filter(rdata.bookmarks, LAMBDA b : b.collectionId # collectionId)
      IN  /\ Dispatch("REORDER_BOOKMARKS", NoSnapshot)
          /\ rdata' = [rdata EXCEPT !.bookmarks = otherBookmarks \o reorderedBookmarks,
                                    !.lastUpdated = rnow]
          /\ UNCHANGED <<rsync, rsettings>>
  /\ UNCHANGED <<svars, cvars, dvars, pvars, lvars, avars>>

\* case 'ADD_COLLECTION'
ADD_COLLECTION ==
  \E id \in CollectionIds \ Ids(rdata.collections), name \in Names :
    LET payload == [name |-> name]
        newCollection ==
          [id |-> id, name |-> payload.name, order |-> Len(rdata.collections) + 1]
    IN  /\ Dispatch("ADD_COLLECTION", NoSnapshot)
        /\ rdata' = [rdata EXCEPT !.collections = Append(@, newCollection),
                                  !.lastUpdated = rnow]
        /\ UNCHANGED <<rsync, rsettings>>
  /\ UNCHANGED <<svars, cvars, dvars, pvars, lvars, avars>>

\* case 'UPDATE_COLLECTION', with the form data of the collection dialog
UPDATE_COLLECTION ==
  \E id \in Ids(rdata.collections), name \in Names :
    LET Updated(collection, k) ==
          IF collection.id = id THEN [collection EXCEPT !.name = name] ELSE collection
    IN  /\ Dispatch("UPDATE_COLLECTION", NoSnapshot)
        /\ rdata' = [rdata EXCEPT !.collections = MapIndexed(@, Updated),
                                  !.lastUpdated = rnow]
        /\ UNCHANGED <<rsync, rsettings>>
  /\ UNCHANGED <<svars, cvars, dvars, pvars, lvars, avars>>

\* case 'DELETE_COLLECTION'
DELETE_COLLECTION ==
  \E id \in Ids(rdata.collections) :
    /\ Dispatch("DELETE_COLLECTION", NoSnapshot)
    /\ rdata' = [rdata EXCEPT !.collections = Filter(@, LAMBDA c : c.id # id),
                              !.bookmarks = FilteredBookmarks(@, id),
                              !.lastUpdated = rnow]
    /\ UNCHANGED <<rsync, rsettings>>
  /\ UNCHANGED <<svars, cvars, dvars, pvars, lvars, avars>>

\* case 'REORDER_COLLECTIONS', with the collections in the order a drag left them
REORDER_COLLECTIONS ==
  \E collections \in Reorderings(rdata.collections) :
    LET Placed(collection, index) == [collection EXCEPT !.order = index]
    IN  /\ Dispatch("REORDER_COLLECTIONS", NoSnapshot)
        /\ rdata' = [rdata EXCEPT !.collections = MapIndexed(collections, Placed),
                                  !.lastUpdated = rnow]
        /\ UNCHANGED <<rsync, rsettings>>
  /\ UNCHANGED <<svars, cvars, dvars, pvars, lvars, avars>>

\* case 'SET_SYNC_STATUS', with the payloads performSync, resolveConflict and
\* the auto-clear timer dispatch
SET_SYNC_STATUS ==
  \E st \in Statuses \ {"conflict"} :
    LET payload == IF st = "idle" THEN [status |-> st]
                   ELSE [status |-> st,
                         error |-> IF st = "error" THEN "Sync failed" ELSE NoValue]
    IN  /\ Dispatch("SET_SYNC_STATUS", NoSnapshot)
        /\ rsync' = [rsync EXCEPT !.status = payload.status,
                                  !.error = IF "error" \in DOMAIN payload
                                            THEN payload.error ELSE @]
        /\ UNCHANGED <<rdata, rsettings>>
  /\ UNCHANGED <<svars, cvars, dvars, pvars, lvars, avars>>

\* case 'SET_SYNC_SETTINGS'
SET_SYNC_SETTINGS ==
  \E autoSync \in BOOLEAN :
    /\ Dispatch("SET_SYNC_SETTINGS", NoSnapshot)
    /\ rsettings' = [rsettings EXCEPT !.autoSync = autoSync]
    /\ UNCHANGED <<rdata, rsync>>
  /\ UNCHANGED <<svars, cvars, dvars, pvars, lvars, avars>>

\* case 'SET_CONFLICT_DATA'
SET_CONFLICT_DATA ==
  \E payload \in {NoConflictData, ConflictPayload} :
    /\ Dispatch("SET_CONFLICT_DATA", NoSnapshot)
    /\ rsync' = [rsync EXCEPT
                   !.conflictData = IF payload # NoConflictData THEN payload
                                    ELSE NoConflictData,
                   !.status = IF payload # NoConflictData THEN "conflict" ELSE @]
    /\ UNCHANGED <<rdata, rsettings>>
  /\ UNCHANGED <<svars, cvars, dvars, pvars, lvars, avars>>

\* case 'CLEAR_SYNC_ERROR'
CLEAR_SYNC_ERROR ==
  /\ Dispatch("CLEAR_SYNC_ERROR", NoSnapshot)
  /\ rsync' = [rsync EXCEPT !.error = NoValue,
                            !.status = IF @ = "error" THEN "idle" ELSE @]
  /\ UNCHANGED <<rdata, rsettings>>
  /\ UNCHANGED <<svars, cvars, dvars, pvars, lvars, avars>>

ReducerNext ==
  \/ LOAD_DATA
  \/ ADD_BOOKMARK
  \/ UPDATE_BOOKMARK
  \/ DELETE_BOOKMARK
  \/ TOGGLE_BOOKMARK_PIN
  \/ REORDER_BOOKMARKS
  \/ ADD_COLLECTION
  \/ UPDATE_COLLECTION
  \/ DELETE_COLLECTION
  \/ REORDER_COLLECTIONS
  \/ SET_SYNC_STATUS
  \/ SET_SYNC_SETTINGS
  \/ SET_CONFLICT_DATA
  \/ CLEAR_SYNC_ERROR

ReducerSpec == Init /\ [][ReducerNext]_vars

\* ------------------------------------------- RouteSpec: the routes and one client
\* GET /api/auth/github/callback.  GitHub redirects user u's browser here with
\* the code of u's authorization; the exchange answers with u's token, with no
\* token, or the callback carries an error.  exchangeCodeForToken and
\* setAccessToken put the token into the server's githubClient.
GET ==
  \E u \in Users, result \in CallbackResults :
    /\ IF result = "token"
         THEN /\ serverToken' = u
              /\ authenticated' = authenticated \cup {u}
         ELSE UNCHANGED <<serverToken, authenticated>>
    /\ response' = NoResponse
    /\ UNCHANGED remoteDoc
    /\ UNCHANGED <<svars, cvars, dvars, pvars, lvars, rvars>>

\* POST /api/gist/sync from caller's browser with the body {data, action,
\* resolution}; valid: the body holds the data its action needs.  GitHub
\* answers every request; which way syncWithGist goes on an existing document
\* depends on the timestamps and is left open here (result).
POST ==
  \E caller \in Users, action \in SyncActions, valid \in BOOLEAN,
     result \in SyncResults, resolution \in BodyResolutions :
    LET owner == serverToken
        remote == remoteDoc[owner]
        reject(code) ==
          /\ response' = Answer(caller, code, NoUser, NoUser, FALSE)
          /\ UNCHANGED remoteDoc
        handleUpload ==
          IF ~valid
            THEN reject(400)
            ELSE /\ remoteDoc' = [remoteDoc EXCEPT ![owner] = caller]
                 /\ response' = Answer(caller, 200, owner, NoUser, TRUE)
        handleDownload ==
          /\ response' = IF remote = NoUser
                           THEN Answer(caller, 500, owner, NoUser, FALSE)
                           ELSE Answer(caller, 200, owner, remote, FALSE)
          /\ UNCHANGED remoteDoc
        handleSync ==
          IF ~valid
            THEN reject(400)
            ELSE IF remote = NoUser \/ result = "uploaded"
                   THEN /\ remoteDoc' = [remoteDoc EXCEPT ![owner] = caller]
                        /\ response' = Answer(caller, 200, owner, NoUser, TRUE)
                   ELSE /\ response' = Answer(caller,
                                              IF result = "conflict" THEN 409 ELSE 200,
                                              owner, remote, FALSE)
                        /\ UNCHANGED remoteDoc
        handleConflictResolution ==
          IF ~valid \/ resolution = NoUser
            THEN reject(400)
            ELSE IF resolution \notin Resolutions
                   THEN reject(400)
                   ELSE IF resolution = "remote"
                          THEN /\ response' = Answer(caller, 200, NoUser, NoUser, FALSE)
                               /\ UNCHANGED remoteDoc
                          ELSE /\ remoteDoc' = [remoteDoc EXCEPT ![owner] = caller]
                               /\ response' = Answer(caller, 200, owner, NoUser, TRUE)
    IN  /\ IF serverToken = NoUser
             THEN reject(401)
             ELSE CASE action = "sync" -> handleSync
                    [] action = "upload" -> handleUpload
                    [] action = "download" -> handleDownload
                    [] action = "resolve_conflict" -> handleConflictResolution
                    [] OTHER -> reject(400)
        /\ UNCHANGED <<serverToken, authenticated>>
        /\ UNCHANGED <<svars, cvars, dvars, pvars, lvars, rvars>>

RouteNext == GET \/ POST

RouteSpec == Init /\ [][RouteNext]_vars

\* ================================================================ claims
\* A call whose requests all went through with a valid token
Clean(th) ==
  /\ th.lost = "none"
  /\ th.werr = "none"
  /\ th.res.error # "Not authenticated"

\* syncWithGist of the call has returned and performSync has not yet acted on it
Returned(th) == th.pc = "ret"

\* ---- C1
\* C1 (conflict symmetry): when the sync of device d reads a remote document that
\* another device uploaded at T1 = meta.lastSync, and d's snapshot has a
\* lastUpdated T2 > T1, syncWithGist returns action 'conflict' with success
\* false and has sent no write to the remote document.
C1_ConflictSymmetry ==
  \A d \in Devices, c \in Calls :
    LET th == call[d][c]
    IN  ( /\ Returned(th)
          /\ th.seen.id # 0
          /\ th.seen.meta.deviceId # d
          /\ th.data.lastUpdated > th.seen.meta.lastSync )
        => ( /\ th.res.action = "conflict"
             /\ ~th.res.success
             /\ th.res.conflict # "none"
             /\ ~th.wrote )

\* C1 witness: device B, with edits the remote lacks and a later lastUpdated,
\* has synced against A's upload and got the conflict
C1_Witness ==
  \E c \in Calls :
    LET th == call["B"][c]
    IN  /\ Returned(th)
        /\ th.seen.id # 0
        /\ th.seen.meta.deviceId = "A"
        /\ th.data.lastUpdated > th.seen.meta.lastSync
        /\ th.data.items # th.seen.data.items
        /\ th.res.action = "conflict"
        /\ gists[th.seen.id].data = th.seen.data

\* ---- C2
\* C2 (same-device non-conflict): when the sync of device d reads a remote
\* document whose last writer is d itself and d's snapshot has a later
\* lastUpdated, the result is 'uploaded', never 'conflict'; it is a success,
\* with the write sent, whenever no request of the call failed.
C2_SameDeviceUploads ==
  \A d \in Devices, c \in Calls :
    LET th == call[d][c]
    IN  ( /\ Returned(th)
          /\ th.seen.id # 0
          /\ th.seen.meta.deviceId = d
          /\ th.data.lastUpdated > th.seen.data.lastUpdated )
        => ( /\ th.res.action = "uploaded"
             /\ Clean(th) => (th.res.success /\ th.wrote /\ th.res.data = th.data) )

\* C2 witness: A uploaded, edited, and its next sync uploaded again
C2_Witness ==
  \E c \in Calls :
    LET th == call["A"][c]
    IN  /\ Returned(th)
        /\ th.seen.id # 0
        /\ th.seen.meta.deviceId = "A"
        /\ th.data.lastUpdated > th.seen.data.lastUpdated
        /\ th.seen.meta.lastSync < th.data.lastUpdated
        /\ th.res.success /\ th.res.action = "uploaded"
        /\ gists[th.res.gistId].data = th.data

\* ---- C3
\* C3 (idempotence), as claimed: a sync that follows a successful sync of the
\* same device, with the local snapshot still equal to the remote snapshot (no
\* edit, no remote change in between), returns action 'no_change'.
C3_SecondSyncNoChange ==
  \A d \in Devices, c \in Calls :
    LET th == call[d][c]
    IN  ( /\ Returned(th)
          /\ Clean(th)
          /\ th.capStatus = "success"
          /\ th.seen.id # 0
          /\ th.seen.data = th.data
          /\ local[d] = th.data )
        => th.res.action = "no_change"

\* ---- C4
\* C4: when the remote snapshot is strictly newer than the local one and its
\* last writer is another device, syncWithGist returns success, action
\* 'downloaded' and the remote snapshot as data, having sent no write; and
\* performSync then replaces the local snapshot by exactly that snapshot.
C4_RemoteNewerDownloads ==
  [][ \A d \in Devices, c \in Calls :
        LET th == call[d][c]
        IN  ( /\ Returned(th)
              /\ th.seen.id # 0
              /\ th.seen.data.lastUpdated > th.data.lastUpdated
              /\ th.seen.meta.deviceId # d )
            => ( /\ th.res.success
                 /\ th.res.action = "downloaded"
                 /\ th.res.data = th.seen.data
                 /\ th.res.gistId = th.seen.id
                 /\ ~th.wrote
                 /\ call'[d][c].pc # "ret" => local'[d] = th.seen.data ) ]_vars

\* C4 witness: B holds an older snapshot than the one A uploaded, and B's sync
\* has returned A's snapshot as a download
C4_Witness ==
  \E c \in Calls :
    LET th == call["B"][c]
    IN  /\ Returned(th)
        /\ th.seen.id # 0
        /\ th.seen.meta.deviceId = "A"
        /\ th.seen.data.lastUpdated > th.data.lastUpdated
        /\ th.res.action = "downloaded"
        /\ th.res.data = gists[th.seen.id].data
        /\ local["B"] # th.res.data

\* ---- C5
\* C5, as claimed: on every device at most one call of syncWithGist is in
\* flight (waiting for a request) at any time.
C5_OneSyncInFlight ==
  \A d \in Devices :
    Cardinality({c \in Calls : /\ call[d][c].pc \in {"find", "ufind", "write"}
                                /\ call[d][c].resolution = "none"}) <= 1

\* ---- C6
\* C6, as claimed: a status of 'success' goes back to 'idle' with no user
\* action; so whenever the status is 'success', something that will act by
\* itself is still pending on the device (an open call with its auto-clear
\* timer, the debounce timer or the startup timer).
C6_SuccessReturnsToIdle ==
  \A d \in Devices :
    status[d] = "success"
      => \/ \E c \in Calls : call[d][c].pc # "free"
         \/ debounce[d] # NoData
         \/ startup[d]

\* ---- C7
\* C7, as claimed: syncWithGist never throws, and whenever a request of the
\* client failed during the call it returns success = false with an error.
C7_FailuresReturnFailure ==
  \A d \in Devices, c \in Calls :
    LET th == call[d][c]
    IN  (Returned(th) /\ (th.lost # "none" \/ th.werr # "none"))
        => (~th.res.success /\ th.res.error # "none")

\* ---- C8
\* C8, as claimed: an error of a request during the sync, the upload request
\* included, surfaces as success = false, action 'no_change' and an error.
C8_ErrorsSurfaceAsNoChange ==
  \A d \in Devices, c \in Calls :
    LET th == call[d][c]
    IN  (Returned(th) /\ (th.lost # "none" \/ th.werr # "none"))
        => (~th.res.success /\ th.res.action = "no_change" /\ th.res.error # "none")

\* ---- C9
\* C9, as claimed: a sync requested while the client is not authenticated
\* returns success = false, action 'no_change' and an error, and the status
\* has not been set to 'syncing' for it.
C9_NotAuthenticatedNeverSyncing ==
  \A d \in Devices, c \in Calls :
    LET th == call[d][c]
    IN  ( /\ th.pc \in {"ret", "out"}
          /\ th.res \in {SyncNotAuthenticated, NotConnected} )
        => ( /\ ~th.res.success
             /\ th.res.action = "no_change"
             /\ th.res.error # "none"
             /\ status[d] # "syncing" )

\* ---- C10
\* C10: when the account holds no bookmark document and the create request of
\* a sync goes through, exactly one document is added, holding the call's local
\* snapshot and metadata of this device with syncCount 1; its id is cached as
\* lastKnownGistId, and the call returns success, 'uploaded', with that id.
C10_CreatesOneDocument ==
  [][ \A d \in Devices, c \in Calls :
        ( /\ gists = <<>>
          /\ call[d][c].pc = "write"
          /\ call'[d][c].pc = "ret"
          /\ call'[d][c].werr = "none" )
        => ( /\ Len(gists') = 1
             /\ gists'[1].data = call[d][c].data
             /\ gists'[1].meta = [deviceId |-> d, syncCount |-> 1, lastSync |-> now]
             /\ gistId'[d] = 1
             /\ call'[d][c].res.success
             /\ call'[d][c].res.action = "uploaded"
             /\ call'[d][c].res.gistId = 1
             /\ call'[d][c].res.data = call[d][c].data ) ]_vars

\* C10 witness: a first sync has created the document and returned its id
C10_Witness ==
  \E d \in Devices, c \in Calls :
    LET th == call[d][c]
    IN  /\ Returned(th)
        /\ th.seen.id = 0
        /\ th.target = 0
        /\ th.wrote
        /\ Len(gists) = 1
        /\ gists[1].data = th.data
        /\ gistId[d] = 1
        /\ th.res.success /\ th.res.action = "uploaded" /\ th.res.gistId = 1

\* ---- C11
\* C11: when the document syncWithGist finds does not parse or lacks a required
\* field, the sync goes on as if there were no remote data: it returns action
\* 'uploaded', and when no request of the call failed it is a success that has
\* overwritten an existing document with the local snapshot (target # 0: the
\* update request, no document created).
C11_CorruptRemoteOverwritten ==
  \A d \in Devices, c \in Calls :
    LET th == call[d][c]
    IN  (Returned(th) /\ th.unparsed # 0)
        => ( /\ th.res.action = "uploaded"
             /\ th.seen = NoSeen
             /\ Clean(th) => ( /\ th.res.success
                               /\ th.wrote
                               /\ th.target # 0
                               /\ th.res.gistId = th.target
                               /\ th.res.data = th.data ) )

\* C11 witness: the only document was unreadable, and the sync has replaced its
\* content by the local snapshot
C11_Witness ==
  \E d \in Devices, c \in Calls :
    LET th == call[d][c]
    IN  /\ Returned(th)
        /\ th.unparsed # 0
        /\ th.target = th.unparsed
        /\ th.res.success /\ th.res.action = "uploaded"
        /\ Len(gists) = 1
        /\ gists[th.target].ok
        /\ gists[th.target].data = th.data

\* ---- C12
\* C12, as claimed: when the sync reads a remote document written by another
\* device and the local and remote lastUpdated differ by less than the 5000 ms
\* window without being equal (by TickMs here, 2000 ms in the scenario), the
\* result is a conflict of type 'merge', whichever timestamp is the larger.
C12_NearSimultaneousConflict ==
  \A d \in Devices, c \in Calls :
    LET th == call[d][c]
    IN  ( /\ Returned(th)
          /\ th.seen.id # 0
          /\ th.seen.meta.deviceId # d
          /\ th.data.lastUpdated # th.seen.data.lastUpdated
          /\ Abs(th.data.lastUpdated - th.seen.data.lastUpdated) < DATA_CONFLICT_WINDOW )
        => (th.res.action = "conflict" /\ th.res.conflict = "merge")

\* ---- C13
\* C13: a resolveConflict with 'remote' returns at once success, action
\* 'downloaded' and the conflict's remote snapshot; the step sends no request:
\* the documents, the cached document id, the token and the count of failed
\* requests are unchanged, and the call never waits for a lookup or a write.
C13_ResolveRemoteNoRequest ==
  [][ \A d \in Devices, c \in Calls :
        (call'[d][c].resolution = "remote" /\ call'[d][c].pc # "free")
        => ( /\ call'[d][c].pc = "ret"
             /\ ~call'[d][c].wrote
             /\ call[d][c].pc = "free" =>
                   ( /\ call'[d][c].res.success
                     /\ call'[d][c].res.action = "downloaded"
                     /\ call'[d][c].res.data = conflictData[d].remoteData
                     /\ call'[d][c].res.error = "none"
                     /\ gists' = gists
                     /\ gistId' = gistId
                     /\ token' = token
                     /\ faults' = faults ) ) ]_vars

\* C13 witness: a conflict was resolved with 'remote'; the result carries the
\* remote snapshot, which differs from the local one, and the document is as
\* the conflicting sync read it
C13_Witness ==
  \E d \in Devices, c \in Calls :
    LET th == call[d][c]
    IN  /\ th.pc = "ret"
        /\ th.resolution = "remote"
        /\ th.res.action = "downloaded"
        /\ th.res.data = conflictData[d].remoteData
        /\ th.res.data # local[d]
        /\ \E id \in 1..Len(gists) : gists[id].data = th.res.data

\* ---- C14
\* C14: a resolveConflict with 'local' uploads the conflict's local snapshot as
\* it is, and with 'merge' the merge of the two sides; when its write request
\* goes through, the call returns success, action 'uploaded' and the uploaded
\* snapshot as data, and the document named by the result holds that snapshot.
C14_ResolveUploads ==
  [][ \A d \in Devices, c \in Calls :
        LET th  == call[d][c]
            th2 == call'[d][c]
        IN  /\ (th.pc = "free" /\ th2.resolution = "local")
                 => th2.data = conflictData[d].localData
            /\ (th.pc = "free" /\ th2.resolution = "merge")
                 => ( /\ th2.data.items = conflictData[d].localData.items
                                            \cup conflictData[d].remoteData.items
                      /\ th2.data.lastUpdated = now )
            /\ ( /\ th.resolution \in {"local", "merge"}
                 /\ th.pc = "write" /\ th2.pc = "ret" /\ th2.werr = "none" )
                 => ( /\ th2.res.success
                      /\ th2.res.action = "uploaded"
                      /\ th2.res.data = th.data
                      /\ th2.data = th.data
                      /\ th2.res.gistId \in 1..Len(gists')
                      /\ gists'[th2.res.gistId].data = th.data
                      /\ gists'[th2.res.gistId].ok ) ]_vars

\* C14 witness: a 'merge' resolution whose two sides differ has been uploaded
\* and the document holds the union
C14_Witness ==
  \E d \in Devices, c \in Calls :
    LET th == call[d][c]
    IN  /\ th.pc = "ret"
        /\ th.resolution = "merge"
        /\ th.res.success /\ th.res.action = "uploaded"
        /\ conflictData[d].localData.items # conflictData[d].remoteData.items
        /\ th.data.items = conflictData[d].localData.items
                             \cup conflictData[d].remoteData.items
        /\ gists[th.res.gistId].data = th.data

\* ---- C15
\* C15, as claimed: when a resolveConflict call has failed, the context sets the
\* status to 'error' and keeps no conflict data.
C15_FailedResolveDropsConflict ==
  [][ \A d \in Devices, c \in Calls :
        ( /\ call[d][c].pc = "ret"
          /\ call[d][c].resolution # "none"
          /\ ~call[d][c].res.success
          /\ call'[d][c].pc = "free" )
        => (status'[d] = "error" /\ conflictData'[d] = NoConflict) ]_vars

\* ---- C16
\* C16, as claimed: every successful upload that overwrites a document writes
\* syncCount = the document's previous syncCount + 1, and a newly created
\* document gets syncCount 1.
C16_SyncCountIncrements ==
  [][ \A d \in Devices, c \in Calls :
        LET th == call[d][c]
        IN  (th.pc = "write" /\ call'[d][c].pc = "ret" /\ call'[d][c].werr = "none")
            => IF th.target # 0
               THEN ( /\ gists[th.target].ok
                      => gists'[th.target].meta.syncCount
                           = gists[th.target].meta.syncCount + 1 )
               ELSE gists'[Len(gists')].meta.syncCount = 1 ]_vars

\* ---- C17
\* C17, as claimed: a request issues at most DEFAULT_RETRY_ATTEMPTS fetch calls,
\* another attempt follows only a network failure or a 5xx response, and the
\* backoff delays are 1 s and then 2 s.
C17_RetriesOnlyTransient ==
  \A r \in Reqs :
    /\ req[r].sent <= DEFAULT_RETRY_ATTEMPTS
    /\ req[r].retried \subseteq {"500", "network"}
    /\ req[r].delays \in { <<>>, <<DEFAULT_RETRY_DELAY>>,
                            <<DEFAULT_RETRY_DELAY, 2 * DEFAULT_RETRY_DELAY>> }

\* ---- C18
\* C18: a 401 response ends the request with an auth error, with no further
\* fetch, and clears the token in memory and in local storage; a request
\* started while there is no token ends with an auth error without any
\* fetch; and only setting a new credential brings a token back.
C18_Unauthorized ==
  [][ /\ \A r \in Reqs :
           /\ (req[r].pc = "fetch" /\ req'[r].pc # "fetch" /\ req'[r].last = "401")
                => ( /\ req'[r].pc = "done"
                     /\ req'[r].out = "auth"
                     /\ req'[r].sent = req[r].sent
                     /\ ~accessToken'
                     /\ ~storedToken'
                     /\ tokenExpiresAt' = 0 )
           /\ (requests' = requests + 1 /\ ~accessToken)
                => ( /\ req'[r].pc = "done"
                     /\ req'[r].out = "auth"
                     /\ req'[r].sent = 0
                     /\ ~accessToken' )
      /\ (~accessToken /\ accessToken') => logins' = logins + 1 ]_vars

\* C18 witness: with no expiry and no new login, a 401 has cleared the token,
\* and a later request has failed with the auth error before any fetch
C18_Witness ==
  /\ logins = 0
  /\ requests >= 2
  /\ ~accessToken /\ ~storedToken
  /\ req[1].pc = "done"
  /\ req[1].out = "auth"
  /\ req[1].sent = 0
  /\ req[1].last = "none"

\* ---- C19
\* C19, as claimed: a 403 whose message names a rate limit ends the request
\* with a rate-limit error carrying the reset time of the response, every
\* other 4xx (a 403 without that reason included) ends it with an API error
\* carrying the server's message, and none of them is retried.
C19_ClientErrors ==
  \A r \in Reqs :
    /\ req[r].retried \cap {"403rate", "403", "404"} = {}
    /\ req[r].pc = "done" =>
         /\ req[r].last = "403rate" =>
               ( /\ req[r].out = "rate"
                 /\ req[r].resetTime # 0 => req[r].resetTime = rateLimit.reset )
         /\ req[r].last \in {"403", "404"} =>
               (req[r].out = "api" /\ req[r].msg = "server")

\* ---- C20
\* C20, as claimed: no fetch is issued while the most recently recorded
\* remaining quota is at or under RATE_LIMIT_BUFFER and its reset time is in
\* the future.
C20_NoFetchWhileQuotaLow ==
  \A r \in Reqs : ~req[r].unchecked

\* ---- C21
\* C21, as claimed: when a request of a sync (the lookup of the document, its
\* fetch by the cached id, or the write) ended in a rate-limit error, the sync
\* returns a failure whose error reports the rate limit and has written
\* nothing.
C21_RateLimitReported ==
  \A d \in Devices, c \in Calls :
    LET th == call[d][c]
    IN  ( /\ Returned(th)
          /\ th.resolution = "none"
          /\ (th.lost = "rate" \/ th.werr = "rate") )
        => ( /\ ~th.res.success
             /\ th.res.error = ErrorMessage("rate")
             /\ ~(th.lost = "rate" /\ th.wrote) )

\* ---- C22
\* C22 (round trip): when uploadToGist(S) has gone through and downloadFromGist
\* is called next, it returns success, action 'downloaded' and a snapshot equal
\* to S item by item and property by property, lastUpdated included.
C22_RoundTrip ==
  (doc # NoDoc /\ downloaded # NoResult)
    => ( /\ downloaded.success
         /\ downloaded.action = "downloaded"
         /\ downloaded.error = "none"
         /\ downloaded.data = dLocal
         /\ downloaded.data.lastUpdated = dLocal.lastUpdated )

\* C22 witness: a snapshot of two bookmarks, one with and one without the
\* optional property, has been uploaded and downloaded again
C22_Witness ==
  /\ doc # NoDoc
  /\ downloaded.success
  /\ Len(dLocal.bookmarks) = 2
  /\ Len(dLocal.collections) = 2
  /\ \E i, j \in 1..2 : /\ dLocal.bookmarks[i].pinned = NoValue
                        /\ dLocal.bookmarks[j].pinned # NoValue
  /\ downloaded.data.bookmarks = dLocal.bookmarks

\* ---- C23
\* the item of a list with a given id
ItemOf(list, id) == list[Position(list, id)]

\* C23: mergeData returns the union by id of the collections and of the
\* bookmarks: one item for each id of either side and no other, each taken
\* from a side that has it; for a bookmark id of both sides the bookmark with
\* the later updatedAt; and for disjoint bookmark ids as many bookmarks as the
\* two sides have together.
C23_MergeIsUnionById ==
  merged # NoSnapshot =>
    /\ DistinctIds(merged.collections)
    /\ DistinctIds(merged.bookmarks)
    /\ Ids(merged.collections) = Ids(dLocal.collections) \cup Ids(dRemote.collections)
    /\ Ids(merged.bookmarks) = Ids(dLocal.bookmarks) \cup Ids(dRemote.bookmarks)
    /\ \A i \in 1..Len(merged.collections) :
         \/ \E j \in 1..Len(dLocal.collections) : merged.collections[i] = dLocal.collections[j]
         \/ \E j \in 1..Len(dRemote.collections) : merged.collections[i] = dRemote.collections[j]
    /\ \A id \in Ids(merged.bookmarks) :
         LET m == ItemOf(merged.bookmarks, id)
         IN  IF id \in Ids(dLocal.bookmarks) /\ id \in Ids(dRemote.bookmarks)
             THEN LET l == ItemOf(dLocal.bookmarks, id)
                      r == ItemOf(dRemote.bookmarks, id)
                  IN  /\ m \in {l, r}
                      /\ l.updatedAt > r.updatedAt => m = l
                      /\ r.updatedAt > l.updatedAt => m = r
             ELSE IF id \in Ids(dLocal.bookmarks)
             THEN m = ItemOf(dLocal.bookmarks, id)
             ELSE m = ItemOf(dRemote.bookmarks, id)
    /\ (Ids(dLocal.bookmarks) \cap Ids(dRemote.bookmarks) = {})
         => Len(merged.bookmarks) = Len(dLocal.bookmarks) + Len(dRemote.bookmarks)

\* C23 witness: both sides hold bookmark b1, the remote one is later and has
\* another title, only the remote side holds b2; the merge holds the remote b1
\* and b2
C23_Witness ==
  /\ merged # NoSnapshot
  /\ Ids(dLocal.bookmarks) = {"b1"}
  /\ Ids(dRemote.bookmarks) = {"b1", "b2"}
  /\ ItemOf(dRemote.bookmarks, "b1").updatedAt > ItemOf(dLocal.bookmarks, "b1").updatedAt
  /\ ItemOf(dRemote.bookmarks, "b1").title # ItemOf(dLocal.bookmarks, "b1").title
  /\ Len(merged.bookmarks) = 2
  /\ ItemOf(merged.bookmarks, "b1") = ItemOf(dRemote.bookmarks, "b1")

\* ---- C24
\* two snapshots that are the same but for the title of one bookmark
OneTitleDiffers(a, b) ==
  /\ a.collections = b.collections
  /\ a.lastUpdated = b.lastUpdated
  /\ Len(a.bookmarks) = Len(b.bookmarks)
  /\ \E i \in 1..Len(a.bookmarks) :
       /\ a.bookmarks[i].title # b.bookmarks[i].title
       /\ [a.bookmarks[i] EXCEPT !.title = b.bookmarks[i].title] = b.bookmarks[i]
       /\ \A j \in 1..Len(a.bookmarks) : j # i => a.bookmarks[j] = b.bookmarks[j]

\* two snapshots that hold the same collections in another order, and are the
\* same otherwise
GroupsReordered(a, b) ==
  /\ a.bookmarks = b.bookmarks
  /\ a.lastUpdated = b.lastUpdated
  /\ a.collections # b.collections
  /\ Len(a.collections) = Len(b.collections)
  /\ { a.collections[i] : i \in 1..Len(a.collections) }
       = { b.collections[i] : i \in 1..Len(b.collections) }

\* C24, as claimed: the checksums of two snapshots that differ only in the
\* title of one bookmark differ, and the checksums of two snapshots that
\* differ only in the order of their collections are equal.
C24_ChecksumSensitive ==
  sums # <<>> =>
    /\ OneTitleDiffers(dLocal, dRemote) => sums[1] # sums[2]
    /\ GroupsReordered(dLocal, dRemote) => sums[1] = sums[2]

\* ---- C25
\* the last edit before position k that set the timeout (0 when there is none)
LastArmed(k) ==
  IF \E i \in 1..(k - 1) : events[i].armed
  THEN CHOOSE i \in 1..(k - 1) : events[i].armed /\ \A j \in (i + 1)..(k - 1) : ~events[j].armed
  ELSE 0

\* C25 (debounce): every sync the debounce starts comes AUTO_SYNC_DELAY after
\* the last edit made while auto-sync was on, GitHub connected and the status
\* idle, and is the only sync started since that edit, so a burst of such
\* edits less than 2 s apart is followed by one sync; and as long as that
\* sync has not been started its timeout is pending and not overdue.
C25_Debounce ==
  /\ \A k \in 1..Len(events) :
       events[k].type = "sync" =>
         LET i == LastArmed(k)
         IN  /\ i # 0
             /\ events[k].at = events[i].at + AUTO_SYNC_DELAY
             /\ \A j \in (i + 1)..(k - 1) : events[j].type # "sync"
  /\ LET i == LastArmed(Len(events) + 1)
     IN  (i # 0 /\ \A j \in (i + 1)..Len(events) : events[j].type # "sync")
           => ( /\ timers = {events[i].at + AUTO_SYNC_DELAY}
                /\ tnow <= events[i].at + AUTO_SYNC_DELAY )

\* C25 witness: three edits, each StepMs after the one before, and then one
\* sync, 2 s after the third
C25_Witness ==
  /\ Len(events) = 4
  /\ \A i \in 1..3 : events[i].type = "edit" /\ events[i].armed
  /\ events[2].at = events[1].at + StepMs
  /\ events[3].at = events[2].at + StepMs
  /\ StepMs < AUTO_SYNC_DELAY
  /\ events[4].type = "sync"
  /\ events[4].at = events[3].at + AUTO_SYNC_DELAY

\* ---- C26
\* C26, as claimed: while the status is 'error' after a failed sync, an edit on
\* a connected device with auto-sync on still arms the debounced auto-sync (a
\* timeout is pending after the edit), without clearSyncError being called.
C26_ErrorDoesNotBlock ==
  [][ \A d \in Devices :
        ( /\ status[d] = "error"
          /\ AutoSync /\ connected[d]
          /\ edits' = edits + 1
          /\ local'[d] # local[d] )
        => debounce'[d] # NoData ]_vars

\* ---- C27
\* C27, as claimed: once a CRUD action has been processed (the save effect
\* runs after its render), local storage holds the resulting snapshot under
\* 'shelf-data'.
C27_SnapshotPersisted ==
  (\E i \in 1..Len(events) : events[i].type = "edit") => stored = pdata

\* ---- C28
\* C28, as claimed: when the timeout armed by an edit fires, the performSync it
\* calls hands syncWithGist the snapshot the provider holds then, which
\* contains the edit and its lastUpdated.
C28_AutoSyncCarriesEdit ==
  [][ \A d \in Devices, c \in Calls :
        ( /\ debounce[d] # NoData
          /\ debounce'[d] = NoData
          /\ call[d][c].pc = "free"
          /\ call'[d][c].pc \in {"find", "ret"} )
        => call'[d][c].data = local[d] ]_vars

\* ---- C29
\* C29, as claimed: when the document a sync is about to overwrite was written
\* by another device after the sync's own lookup (the lookup went through and
\* read no document, or read another content of it) and holds a snapshot newer
\* than the one the sync uploads, the write request does not replace that
\* document: the call ends without success and the document is as the other
\* device left it.
C29_NoLostUpdate ==
  [][ \A d \in Devices, c \in Calls :
        LET th == call[d][c]
        IN  ( /\ th.pc = "write"
              /\ th.resolution = "none"
              /\ th.lost = "none"
              /\ th.unparsed = 0
              /\ th.target # 0
              /\ gists[th.target].ok
              /\ gists[th.target].meta.deviceId # d
              /\ (th.seen.id = 0 \/ th.seen.meta # gists[th.target].meta)
              /\ gists[th.target].data.lastUpdated > th.data.lastUpdated
              /\ call'[d][c].pc = "ret" )
            => ( /\ ~call'[d][c].res.success
                 /\ gists'[th.target] = gists[th.target] ) ]_vars

\* ---- C30
\* C30, as claimed: when a device that has not yet synced with any document
\* (no cached document id) holds local edits and its sync reads a document
\* written by another device with another content, syncWithGist reports a
\* conflict and not a download, whichever lastUpdated is the larger.
C30_UnsyncedEditsKept ==
  [][ \A d \in Devices, c \in Calls :
        LET th  == call[d][c]
            th2 == call'[d][c]
        IN  ( /\ th.pc = "find"
              /\ th2.pc = "ret"
              /\ gistId[d] = 0
              /\ th.data # LoadedData
              /\ th.data = local[d]
              /\ th2.seen.id # 0
              /\ th2.seen.meta.deviceId # d
              /\ th2.seen.data # th.data )
            => ( /\ th2.res.action = "conflict"
                 /\ ~th2.res.success ) ]_vars

\* ---- C31
\* C31, as claimed: when the lookup of uploadToGist comes back without a
\* document while the account holds a bookmark document (which happens only
\* when a request of the lookup failed), the upload returns a failure instead
\* of going on to create a document.
C31_FailedLookupFailsSync ==
  [][ \A d \in Devices, c \in Calls :
        LET th == call[d][c]  th2 == call'[d][c]
        IN  ( /\ th.pc = "ufind"
              /\ th2.pc # "ufind"
              /\ gists # <<>>
              /\ th2.target = 0 )
            => ( /\ th2.pc = "ret"
                 /\ ~th2.res.success ) ]_vars

\* ---- C32
\* C32, as claimed: once a sync has uploaded the bookmark gist, findBookmarkGist
\* of a client without a cached id returns that gist, whatever other gists the
\* list shows before it.
C32_FreshClientLocates ==
  \A i \in 1..Len(account) :
    ( located # -1 /\ account[i] = BookmarkGist(account[i].id) )
    => located = account[i].id

\* ---- C33
\* C33, as claimed: while the status is 'conflict' (SET_CONFLICT_DATA has stored
\* the conflict data with it), no trigger starts a new sync.
C33_ConflictBlocksSync ==
  [][ tstatus = "conflict"
      => ~( /\ Len(events') = Len(events) + 1
            /\ events'[Len(events')].type = "sync" ) ]_vars

\* ---- C34
\* C34: for a sync that found and parsed the remote document, detectConflict
\* gives no conflict exactly when the remote snapshot is strictly newer and was
\* written by another device, or the local snapshot is strictly newer and the
\* remote one was written by this device; in every other case (equal times
\* included) the sync returns a conflict, of type 'merge' when the two times
\* are less than 5000 ms apart and of type 'data' otherwise.
C34_DetectConflictExact ==
  \A d \in Devices, c \in Calls :
    LET th == call[d][c]
        localTime  == th.data.lastUpdated
        remoteTime == th.seen.data.lastUpdated
        own        == th.seen.meta.deviceId = d
        apart      == IF localTime < remoteTime THEN remoteTime - localTime
                      ELSE localTime - remoteTime
        quiet      == \/ remoteTime > localTime /\ ~own
                      \/ localTime > remoteTime /\ own
    IN  (Returned(th) /\ th.resolution = "none" /\ th.seen.id # 0)
        => IF quiet
           THEN th.res.action # "conflict" /\ th.res.conflict = "none"
           ELSE /\ th.res.action = "conflict"
                /\ ~th.res.success
                /\ th.res.conflict = IF apart < 5000 THEN "merge" ELSE "data"

\* C34 witness: a sync has returned a conflict of type 'data' for snapshots
\* 5000 ms apart
C34_Witness ==
  \E d \in Devices, c \in Calls :
    LET th == call[d][c]
    IN  /\ Returned(th)
        /\ th.resolution = "none"
        /\ th.seen.id # 0
        /\ th.seen.meta.deviceId # d
        /\ th.data.lastUpdated = th.seen.data.lastUpdated + 5000
        /\ th.res.action = "conflict"
        /\ th.res.conflict = "data"

C36_LastUpdatedFrame ==
  [][ rnow' # rnow =>
        /\ rlast'.type \in DataActions => rdata'.lastUpdated = rnow
        /\ rlast'.type = "LOAD_DATA" => rdata' = rlast'.loaded
        /\ rlast'.type \in {"SET_SYNC_STATUS", "SET_SYNC_SETTINGS",
                            "SET_CONFLICT_DATA", "CLEAR_SYNC_ERROR"}
           => rdata' = rdata ]_vars

\* C36 witness: a snapshot last updated at 500 has been loaded after 2000 ms
C36_Witness ==
  /\ rlast.type = "LOAD_DATA"
  /\ rnow > 2 * DispatchMs
  /\ rdata.bookmarks # <<>>
  /\ rdata.lastUpdated = 500

\* ---- C38
\* C38: when every bookmark of the local snapshot references a collection of
\* the local snapshot and every bookmark of the remote snapshot a collection of
\* the remote one, every bookmark of mergeData(local, remote) references a
\* collection of the merged snapshot.
C38_MergeKeepsReferences ==
  ( merged # NoSnapshot /\ References(dLocal) /\ References(dRemote) )
  => References(merged)

\* C38 witness: the local snapshot holds collection c2 only and no bookmark, the
\* remote one holds bookmarks in c1; the merge holds them together with c1
C38_Witness ==
  /\ merged # NoSnapshot
  /\ Ids(dLocal.collections) = {"c2"}
  /\ dLocal.bookmarks = <<>>
  /\ Len(dRemote.bookmarks) = 2
  /\ Len(merged.bookmarks) = 2
  /\ Ids(merged.collections) = {"c1", "c2"}
  /\ \A i \in 1..2 : merged.bookmarks[i].collectionId = "c1"

\* ---- C37
\* C37, as claimed: in every state of the provider, conflict data is stored
\* only while the status is 'conflict' or a resolveConflict of the context is
\* under way.
C37_ConflictDataConsistent ==
  \A d \in Devices :
    conflictData[d] # NoConflict
    => \/ status[d] = "conflict"
       \/ \E c \in Calls : call[d][c].pc # "free" /\ call[d][c].resolution # "none"

\* ---- C39
\* C39, as claimed: when fetch settles with a 2xx response, with a JSON body or
\* with a body that is empty or not JSON, the request ends there with success;
\* no further fetch follows it.
C39_SuccessNeverRetried ==
  [][ \A r \in Reqs :
        ( /\ req[r].pc = "fetch"
          /\ req'[r].pc # "fetch"
          /\ req'[r].last \in {"ok", "okNoBody"} )
        => ( /\ req'[r].pc = "done"
             /\ req'[r].out = "ok" ) ]_vars

\* C40, as claimed: the sync route acts only with the credential of the
\* request's own caller: the answer to a POST /api/gist/sync of a client that
\* never authenticated neither returns the data of a remote document nor has
\* written one.  The code does not keep this: the route tests and uses the
\* token of the server's one githubClient, whoever logged in last.
C40_OwnCredentialOnly ==
  response.caller \notin authenticated
    => ( /\ response.read = NoUser
         /\ ~response.wrote )

====
